---- MODULE Spec2Model ----
(***************************************************************************)
(* A model of the message-archive skill: the Store (MessageArchive,        *)
(* lib/archive-db.js), the event-log parser (lib/event-parser.js), the     *)
(* message parser (lib/message-parser.js) and the scanner                  *)
(* (tools/archive-scan.js).                                                *)
(*                                                                         *)
(* The specifications share the variables:                                 *)
(*   SpecStore   the Store's event API called directly                     *)
(*   SpecFan     one source record parsed and ingested                     *)
(*   SpecMsg     the Store's message API called directly                   *)
(*   SpecScan    the scanner over the session files, file by file          *)
(*   SpecRescan  the events scan run twice in a row                        *)
(*   SpecParse   a file of lines parsed and ingested, then parsed again    *)
(*   SpecRemsg   the messages scan run twice in a row                      *)
(*   SpecExport  a session ingested, exported and re-ingested              *)
(*   SpecLife    insert, edit, soft delete and reactions of messages       *)
(*   SpecRead    the read paths over live and soft-deleted messages        *)
(*   SpecKill    messages edited, the process dying inside an edit         *)
(*   SpecReact   reactions added and removed                               *)
(*   SpecOpen    a database created, opened and scanned for the first time *)
(*   SpecBatch   batches of messages that reply to one another             *)
(*   SpecTelegram  one Telegram export imported again and again            *)
(*   SpecSessions  the sessions scan, the summarizer failing or not        *)
(*   SpecFind    the session files a scan finds in a state directory       *)
(*   SpecFts     messages inserted, edited and searched by their text      *)
(*   SpecAgain   a batch of events given to the Store a second time        *)
(*   SpecWhatsApp  a WhatsApp chat export imported                         *)
(*   SpecHeader  a session file whose header may name another session      *)
(*   SpecStatus  sessions written, completed and failed                    *)
(*   SpecAppend  a writer appending to the files while scans run           *)
(*   SpecFail    scans in which the processing of a file fails once        *)
(*   SpecKeys    the session key the three scans give one file             *)
(*   SpecImports exports of two Telegram chats and a WhatsApp chat         *)
(*   SpecResurrect  messages scanned, soft-deleted and scanned again       *)
(***************************************************************************)
EXTENDS Integers, Sequences, FiniteSets, TLC

VARIABLES
    events,          \* rows of the events table
    thinking_blocks, \* event ids of the rows of thinking_blocks
    usage_stats,     \* event ids of the rows of usage_stats
    foreign_keys,    \* PRAGMA foreign_keys of the connection
    messages,        \* rows of the messages table, in rowid order
    messages_fts,    \* the full-text index: <<rowid, text>> entries
    edits,           \* rows of the edits table, in rowid order
    reactions,       \* rows of the reactions table
    tables,          \* the tables the database file has
    sessions,        \* sessions rows
    archive_state,   \* archive_state: key -> value
    files,           \* the session files: name -> sequence of source records
    clock,           \* Date.now()
    scan,            \* the scanner's position
    call,            \* the call the caller last made, its arguments and result
    forceUsed        \* history: a batch has run with disableForeignKeys

vars == <<events, thinking_blocks, usage_stats, foreign_keys, messages,
          messages_fts, edits, reactions, tables, sessions,
          archive_state, files, clock, scan, call, forceUsed>>

\* the tables beside messages that hold what is known of a message
msgTables == <<messages_fts, edits, reactions>>

\* the tables initializeSchema creates, the messages_fts index and the
\* sessions table included
StoreTables == {"messages", "attachments", "reactions", "edits", "archive_state",
                "messages_fts", "sessions"}

\* the tables the tool archive-events-init creates from the events schema
EventTables == {"events", "thinking_blocks", "usage_stats", "daily_stats"}

\* JavaScript null / SQL NULL
Null == "null"

\* ------------------------------------------------------------------ bounds

\* longest batch handed to insertEventBatch by a direct caller
MaxBatch == 2

\* most content blocks in one source message record
MaxBlocks == 3

\* most insertMessage calls a direct caller makes
MaxInserts == 2

\* latest wall-clock time
MaxClock == 3

\* lines of a parsed file
MaxLines == 2

\* edits of the messages, and the clock of SpecLife
MaxEdits == 2
MaxLifeClock == 2

\* ------------------------------------------------------------- sequences

RECURSIVE SeqsUpTo(_, _)
SeqsUpTo(S, n) ==
    IF n = 0 THEN {<<>>}
    ELSE LET shorter == SeqsUpTo(S, n - 1)
         IN shorter \cup {Append(s, x) : s \in {t \in shorter : Len(t) = n - 1}, x \in S}

\* ------------------------------------------------------------ the Store

\* the database as insertEvent sees and changes it
Db == [events |-> events, thinking_blocks |-> thinking_blocks,
       usage_stats |-> usage_stats, foreign_keys |-> foreign_keys]

\* hasEvent of a table with no index on event_id: nothing is found
hasEventNever(evs, id) == FALSE

hasEvent(evs, id) == \E r \in evs : r.event_id = id

\* fkViolated with the constraint left out of the table
fkViolatedNoConstraint(d, e) == FALSE

\* FOREIGN KEY (parent_event_id) REFERENCES events(event_id): checked when the
\* pragma is on; a row that names itself as parent satisfies it.
fkViolated(d, e) ==
    /\ d.foreign_keys
    /\ e.parent_event_id # Null
    /\ e.parent_event_id # e.event_id
    /\ ~hasEvent(d.events, e.parent_event_id)

eventRow(e, sessionKey) ==
    [event_id |-> e.event_id, parent_event_id |-> e.parent_event_id,
     session_key |-> sessionKey, session_id |-> e.session_id,
     event_type |-> e.event_type, timestamp |-> e.timestamp,
     content_json |-> e.content_json]

\* insertEvent: ret is "rowid" (inserted), "null" (skipped) or "throw"
insertEvent(d, eventData, sessionKey, skipIfExists) ==
    LET e == IF eventData.session_id = Null /\ eventData.event_type = "session"
             THEN [eventData EXCEPT !.session_id = eventData.event_id]
             ELSE eventData
    IN  IF skipIfExists /\ hasEvent(d.events, e.event_id)
        THEN [db |-> d, ret |-> "null"]
        ELSE IF hasEvent(d.events, e.event_id)      \* UNIQUE(event_id)
        THEN [db |-> d, ret |-> "throw"]
        ELSE IF e.session_id = Null                 \* session_id NOT NULL
        THEN [db |-> d, ret |-> "throw"]
        ELSE IF fkViolated(d, e)
        THEN [db |-> d, ret |-> "throw"]
        ELSE [db |-> [d EXCEPT
                        !.events = @ \cup {eventRow(e, sessionKey)},
                        !.thinking_blocks =
                            IF e.event_type = "thinking_block" /\ e.thinking_content \notin {Null, ""}
                            THEN @ \cup {e.event_id} ELSE @,
                        !.usage_stats =
                            IF e.event_type = "usage_stats" /\ e.usage
                            THEN @ \cup {e.event_id} ELSE @],
              ret |-> "rowid"]

\* the session id insertEventBatch fills in: options.sessionId, else the first
\* session event's
batchSessionId(evts, sessionId) ==
    IF sessionId # Null THEN sessionId
    ELSE IF \E i \in 1..Len(evts) : evts[i].event_type = "session"
         THEN LET i == CHOOSE i \in 1..Len(evts) :
                            /\ evts[i].event_type = "session"
                            /\ \A j \in 1..(i - 1) : evts[j].event_type # "session"
              IN evts[i].session_id
         ELSE Null

fillSessionId(evts, sessionId) ==
    [i \in 1..Len(evts) |->
        IF evts[i].session_id = Null
        THEN [evts[i] EXCEPT !.session_id = batchSessionId(evts, sessionId)]
        ELSE evts[i]]

\* the loop of the transaction: acc = [db, inserted, skipped, errors, log]
RECURSIVE insertLoop(_, _, _, _)
insertLoop(acc, evts, i, sessionKey) ==
    IF i > Len(evts) THEN acc
    ELSE LET r == insertEvent(acc.db, evts[i], sessionKey, TRUE)
         IN insertLoop(
                [db |-> r.db,
                 inserted |-> acc.inserted + (IF r.ret = "rowid" THEN 1 ELSE 0),
                 skipped |-> acc.skipped + (IF r.ret = "null" THEN 1 ELSE 0),
                 errors |-> acc.errors + (IF r.ret = "throw" THEN 1 ELSE 0),
                 log |-> Append(acc.log, r.ret)],
                evts, i + 1, sessionKey)

\* insertEventBatch with options.disableForeignKeys ignored
insertEventBatchKeepsForeignKeys(d, evts, sessionKey, sessionId, disableForeignKeys) ==
    insertLoop([db |-> d, inserted |-> 0, skipped |-> 0, errors |-> 0, log |-> <<>>],
               fillSessionId(evts, sessionId), 1, sessionKey)

\* insertEventBatch when the transaction commits
insertEventBatch(d, evts, sessionKey, sessionId, disableForeignKeys) ==
    LET filled == fillSessionId(evts, sessionId)
        d0 == IF disableForeignKeys THEN [d EXCEPT !.foreign_keys = FALSE] ELSE d
        out == insertLoop([db |-> d0, inserted |-> 0, skipped |-> 0, errors |-> 0,
                           log |-> <<>>], filled, 1, sessionKey)
    IN  [out EXCEPT !.db.foreign_keys = IF disableForeignKeys THEN TRUE ELSE @]

\* insertEventBatch when the transaction throws (COMMIT fails): the rows are
\* rolled back and the statement that turns the pragma back on is not reached
insertEventBatchThrows(d, disableForeignKeys) ==
    IF disableForeignKeys THEN [d EXCEPT !.foreign_keys = FALSE] ELSE d

\* ------------------------------------------------ the Store: messages

\* ABS(timestamp - ?) < 1000
FUZZY_WINDOW == 1000

Abs(x) == IF x < 0 THEN 0 - x ELSE x

\* a JavaScript value that is falsy: null or the empty string
falsy(v) == v \in {Null, ""}

\* hashMessage: SHA-256 of `${sender_id || ''}|${timestamp}|${content_text || ''}`,
\* held as the payload it is computed from
hashMessage(m) ==
    <<IF falsy(m.sender_id) THEN "" ELSE m.sender_id, m.timestamp,
      IF falsy(m.content_text) THEN "" ELSE m.content_text>>

\* isDuplicate with the fuzzy level left out
isDuplicateNoFuzzy(msgs, m) ==
    \/ \E i \in 1..Len(msgs) : msgs[i].message_id = m.message_id
    \/ \E i \in 1..Len(msgs) : msgs[i].content_hash = hashMessage(m)

isDuplicate(msgs, m) ==
    \/ \E i \in 1..Len(msgs) : msgs[i].message_id = m.message_id
    \/ \E i \in 1..Len(msgs) : msgs[i].content_hash = hashMessage(m)
    \/ /\ ~falsy(m.sender_id)
       /\ ~falsy(m.content_text)
       /\ \E i \in 1..Len(msgs) :
             /\ msgs[i].sender_id = m.sender_id
             /\ Abs(msgs[i].timestamp - m.timestamp) < FUZZY_WINDOW
             /\ msgs[i].content_text = m.content_text

\* NULL in an INTEGER column; the column holding t is <<t>>
Unset == <<>>

\* data.reply_to_id || null, of a message that may carry no such field
replyTo(m) ==
    IF "reply_to_id" \in DOMAIN m /\ ~falsy(m.reply_to_id) THEN m.reply_to_id ELSE Null

messageRow(m) ==
    [message_id |-> m.message_id,
     sender_id |-> IF falsy(m.sender_id) THEN Null ELSE m.sender_id,
     content_text |-> IF falsy(m.content_text) THEN Null ELSE m.content_text,
     content_hash |-> hashMessage(m),
     reply_to_id |-> replyTo(m),
     timestamp |-> m.timestamp,
     edited_at |-> Unset, deleted_at |-> Unset]

\* FOREIGN KEY (reply_to_id) REFERENCES messages(message_id), for the row of m
\* added to msgs (a message may reply to itself)
replyMissing(msgs, m) ==
    /\ replyTo(m) # Null
    /\ replyTo(m) # m.message_id
    /\ ~\E i \in 1..Len(msgs) : msgs[i].message_id = replyTo(m)

\* insertMessage: ret is "rowid", "null" (skipped) or "throw" (UNIQUE(message_id)
\* or the foreign key of reply_to_id)
insertMessage(msgs, m, skipIfExists) ==
    IF skipIfExists /\ isDuplicate(msgs, m)
    THEN [messages |-> msgs, ret |-> "null"]
    ELSE IF \E i \in 1..Len(msgs) : msgs[i].message_id = m.message_id
    THEN [messages |-> msgs, ret |-> "throw"]
    ELSE IF replyMissing(msgs, m)
    THEN [messages |-> msgs, ret |-> "throw"]
    ELSE IF m.timestamp = 0 - 1                 \* timestamp NOT NULL: NaN is bound as NULL
    THEN [messages |-> msgs, ret |-> "throw"]
    ELSE [messages |-> Append(msgs, messageRow(m)), ret |-> "rowid"]

\* the loop of insertBatch's transaction up to the first insertMessage that
\* throws: acc = [messages, inserted, skipped, threw]
RECURSIVE insertBatchLoop(_, _, _)
insertBatchLoop(acc, msgs, i) ==
    IF i > Len(msgs) \/ acc.threw THEN acc
    ELSE LET r == insertMessage(acc.messages, msgs[i], TRUE)
         IN  insertBatchLoop([messages |-> r.messages,
                              inserted |-> acc.inserted + (IF r.ret = "rowid" THEN 1 ELSE 0),
                              skipped |-> acc.skipped + (IF r.ret = "null" THEN 1 ELSE 0),
                              threw |-> r.ret = "throw"],
                             msgs, i + 1)

\* insertBatch(msgs) on the rows `before`, from record i: the loop has no
\* catch, so an insertMessage that throws ends the transaction, which is
\* rolled back, and the exception goes to the caller
insertBatch(before, msgs, i) ==
    LET out == insertBatchLoop([messages |-> before, inserted |-> 0, skipped |-> 0,
                                threw |-> FALSE], msgs, i)
    IN  IF out.threw
        THEN [messages |-> before, ret |-> "throw", inserted |-> 0, skipped |-> 0]
        ELSE [messages |-> out.messages, ret |-> "ok", inserted |-> out.inserted,
              skipped |-> out.skipped]

\* the rowid of the row with this message_id, 0 when there is none
rowOf(msgs, messageId) ==
    IF \E i \in 1..Len(msgs) : msgs[i].message_id = messageId
    THEN CHOOSE i \in 1..Len(msgs) : msgs[i].message_id = messageId
    ELSE 0

\* the trigger messages_fts_update, for the row rowid whose text is now
\* newText: the index takes the new text; what it held for the row stays
messages_fts_update(fts, rowid, newText) ==
    IF newText = Null THEN fts ELSE fts \cup {<<rowid, newText>>}

\* softDeleteMessage with the row deleted from the table
softDeleteRemovesRow(st, messageId, timestamp) ==
    [st EXCEPT !.messages = SelectSeq(@, LAMBDA m : m.message_id # messageId)]

\* softDeleteMessage on st = [messages, messages_fts, edits]:
\* UPDATE messages SET deleted_at = ? WHERE message_id = ?
softDeleteMessage(st, messageId, timestamp) ==
    LET i == rowOf(st.messages, messageId)
    IN  IF i = 0 THEN st
        ELSE [st EXCEPT !.messages[i].deleted_at = <<timestamp>>,
                        !.messages_fts = messages_fts_update(@, i, st.messages[i].content_text)]

\* updateMessage on st = [messages, messages_fts, edits]; ret is "ok", or
\* "throw" when the INSERT INTO edits fails on previous_content NOT NULL
updateMessage(st, messageId, newContent, editTimestamp) ==
    LET i == rowOf(st.messages, messageId)
    IN  IF i = 0 THEN [st |-> st, ret |-> "ok"]
        ELSE IF st.messages[i].content_text = Null
        THEN [st |-> st, ret |-> "throw"]
        ELSE [st |-> [st EXCEPT
                        !.edits = Append(@, [message_id |-> messageId,
                                             previous_content |-> st.messages[i].content_text,
                                             edited_at |-> editTimestamp]),
                        !.messages[i].content_text = newContent,
                        !.messages[i].edited_at = <<editTimestamp>>,
                        !.messages_fts = messages_fts_update(@, i, newContent)],
              ret |-> "ok"]

\* updateMessage when the process dies after its first statement: the two
\* statements run outside a transaction, each committed on its own, so the
\* INSERT INTO edits stays and the UPDATE never runs
updateMessageKilled(st, messageId, newContent, editTimestamp) ==
    LET i == rowOf(st.messages, messageId)
    IN  IF i = 0 \/ st.messages[i].content_text = Null THEN st
        ELSE [st EXCEPT
                !.edits = Append(@, [message_id |-> messageId,
                                     previous_content |-> st.messages[i].content_text,
                                     edited_at |-> editTimestamp])]

\* UNIQUE(message_id, emoji, user_id)
reactionKey(r) == <<r.message_id, r.emoji, r.user_id>>

\* addReaction: a row for a message that is not stored breaks the foreign
\* key; a row that exists is made active again (ON CONFLICT DO UPDATE); a new
\* row gets the next id (no row is ever deleted)
addReaction(msgs, rs, messageId, emoji, userId, now) ==
    IF rowOf(msgs, messageId) = 0 THEN rs
    ELSE IF \E r \in rs : reactionKey(r) = <<messageId, emoji, userId>>
    THEN {IF reactionKey(r) = <<messageId, emoji, userId>>
          THEN [r EXCEPT !.removed_at = Unset, !.added_at = now] ELSE r : r \in rs}
    ELSE rs \cup {[id |-> Cardinality(rs) + 1,
                    message_id |-> messageId, emoji |-> emoji, user_id |-> userId,
                    added_at |-> now, removed_at |-> Unset]}

\* removeReaction without its condition removed_at IS NULL
removeReactionAlways(rs, messageId, emoji, userId, now) ==
    {IF reactionKey(r) = <<messageId, emoji, userId>>
     THEN [r EXCEPT !.removed_at = <<now>>] ELSE r : r \in rs}

\* removeReaction: removed_at of the active row
removeReaction(rs, messageId, emoji, userId, now) ==
    {IF reactionKey(r) = <<messageId, emoji, userId>> /\ r.removed_at = Unset
     THEN [r EXCEPT !.removed_at = <<now>>] ELSE r : r \in rs}

\* limit = 100
DEFAULT_LIMIT == 100

\* getConversationContext: limit: 1000
CONTEXT_LIMIT == 1000

\* search(query, limit = 50)
SEARCH_LIMIT == 50

\* the WHERE clause of queryMessages for the row with rowid i: senderId,
\* startTime, endTime and contentMatch filter only when truthy (the rows of
\* the model are all of one session key and channel)
queryWhere(msgs, fts, f, i) ==
    /\ falsy(f.senderId) \/ msgs[i].sender_id = f.senderId
    /\ f.startTime = 0 \/ msgs[i].timestamp >= f.startTime
    /\ f.endTime = 0 \/ msgs[i].timestamp <= f.endTime
    /\ f.includeDeleted \/ msgs[i].deleted_at = Unset
    /\ falsy(f.contentMatch) \/ <<i, f.contentMatch>> \in fts

\* ORDER BY timestamp DESC of the rows with rowids in I: the orders SQLite
\* may return them in
timestampDesc(msgs, I) ==
    {s \in [1..Cardinality(I) -> I] :
        /\ \A i, j \in 1..Cardinality(I) : i # j => s[i] # s[j]
        /\ \A i, j \in 1..Cardinality(I) : i < j => msgs[s[i]].timestamp >= msgs[s[j]].timestamp}

\* LIMIT ? of a sequence of rowids, as rows
limitRows(msgs, s, limit) ==
    [k \in 1..(IF limit < Len(s) THEN limit ELSE Len(s)) |-> msgs[s[k]]]

\* queryMessages with the deleted_at clause left out
queryMessagesWithDeleted(msgs, fts, f) ==
    {limitRows(msgs, s, f.limit) :
        s \in timestampDesc(msgs, {i \in 1..Len(msgs) :
                                     queryWhere(msgs, fts, [f EXCEPT !.includeDeleted = TRUE], i)})}

\* queryMessages(filters), offset 0: the results it may return
queryMessages(msgs, fts, f) ==
    {limitRows(msgs, s, f.limit) :
        s \in timestampDesc(msgs, {i \in 1..Len(msgs) : queryWhere(msgs, fts, f, i)})}

\* getConversationContext: the messages it renders, oldest first (none: the
\* text "No messages found in this time range.")
getConversationContext(msgs, fts, startTime, endTime) ==
    {[k \in 1..Len(r) |-> r[Len(r) + 1 - k]] :
        r \in queryMessages(msgs, fts,
                [senderId |-> Null, startTime |-> startTime, endTime |-> endTime,
                 contentMatch |-> Null, limit |-> CONTEXT_LIMIT, includeDeleted |-> FALSE])}

\* search(query, limit): messages_fts joined with messages, in rank order
\* (any), cut at limit
search(msgs, fts, query, limit) ==
    LET hits == {i \in 1..Len(msgs) : <<i, query>> \in fts}
        n == IF limit < Cardinality(hits) THEN limit ELSE Cardinality(hits)
    IN  {[k \in 1..n |-> msgs[s[k]]] :
            s \in {t \in [1..n -> hits] : \A i, j \in 1..n : i # j => t[i] # t[j]}}

\* the trigger messages_fts_insert, for the rows added to `before`: the index
\* gets the new row's text under its rowid (a NULL text has no tokens). A text
\* is indexed as one token.
messages_fts_insert(fts, before, after) ==
    fts \cup {<<i, after[i].content_text>> :
                i \in {j \in (Len(before) + 1)..Len(after) : after[j].content_text # Null}}

\* ------------------------------------------------------ the event parser

\* a source record (one JSONL line): [type, id, parentId, timestamp, role,
\* content, usage]; role, content and usage are those of raw.message and usage
\* says whether it carries a usage object. A content block is [type, id, thinking].

\* content_json of an event that is no message: nothing of a message in it
noMessage == [role |-> Null, content |-> <<>>, usage |-> FALSE, mts |-> 0, text |-> ""]

\* content_json: JSON.stringify(msg) for a message record, the record's own
\* fields for the others
contentJson(raw) ==
    IF raw.type = "message"
    THEN [role |-> raw.role, content |-> raw.content, usage |-> raw.usage,
          mts |-> raw.mts, text |-> raw.text]
    ELSE noMessage

baseEvent(raw, type) ==
    [event_id |-> raw.id, parent_event_id |-> raw.parentId, session_id |-> Null,
     event_type |-> type, timestamp |-> raw.timestamp,
     thinking_content |-> Null, usage |-> FALSE, content_json |-> contentJson(raw)]

parseSessionEvent(raw) ==
    [baseEvent(raw, "session") EXCEPT !.parent_event_id = Null, !.session_id = raw.id]

toolCallEvent(raw, block) ==
    [baseEvent(raw, "tool_call") EXCEPT
        !.event_id = raw.id \o "_tool_" \o block.id, !.parent_event_id = raw.id,
        !.content_json = noMessage]

\* a thinking event whose id is made from the block's text
thinkingEventByContent(raw, block) ==
    [baseEvent(raw, "thinking_block") EXCEPT
        !.event_id = raw.id \o "_thinking_" \o block.thinking, !.parent_event_id = raw.id,
        !.thinking_content = block.thinking, !.content_json = noMessage]

thinkingEvent(raw, block) ==
    [baseEvent(raw, "thinking_block") EXCEPT
        !.event_id = raw.id \o "_thinking", !.parent_event_id = raw.id,
        !.thinking_content = block.thinking, !.content_json = noMessage]

usageEvent(raw) ==
    [baseEvent(raw, "usage_stats") EXCEPT
        !.event_id = raw.id \o "_usage", !.parent_event_id = raw.id, !.usage = TRUE,
        !.content_json = noMessage]

\* the loop over msg.content: one event per toolCall/toolUse block and per
\* thinking block, in block order
RECURSIVE blockEvents(_, _, _)
blockEvents(raw, content, i) ==
    IF i > Len(content) THEN <<>>
    ELSE (IF content[i].type \in {"toolCall", "toolUse"} THEN <<toolCallEvent(raw, content[i])>>
          ELSE IF content[i].type = "thinking" THEN <<thinkingEvent(raw, content[i])>>
          ELSE <<>>)
         \o blockEvents(raw, content, i + 1)

\* parseMessageEvent with the message event pushed last
parseMessageEventChildFirst(raw) ==
    (IF raw.role = "assistant" THEN blockEvents(raw, raw.content, 1) ELSE <<>>)
    \o (IF raw.role = "assistant" /\ raw.usage THEN <<usageEvent(raw)>> ELSE <<>>)
    \o <<baseEvent(raw, IF raw.role = "toolResult" THEN "tool_result" ELSE "message")>>

\* parseMessageEvent without the usage event
parseMessageEventNoUsage(raw) ==
    <<baseEvent(raw, IF raw.role = "toolResult" THEN "tool_result" ELSE "message")>>
    \o (IF raw.role = "assistant" THEN blockEvents(raw, raw.content, 1) ELSE <<>>)

parseMessageEvent(raw) ==
    <<baseEvent(raw, IF raw.role = "toolResult" THEN "tool_result" ELSE "message")>>
    \o (IF raw.role = "assistant" THEN blockEvents(raw, raw.content, 1) ELSE <<>>)
    \o (IF raw.role = "assistant" /\ raw.usage THEN <<usageEvent(raw)>> ELSE <<>>)

parseEvent(raw) ==
    IF raw.type = "session" THEN <<parseSessionEvent(raw)>>
    ELSE IF raw.type \in {"model_change", "thinking_level_change", "custom"}
    THEN <<baseEvent(raw, raw.type)>>
    ELSE IF raw.type = "message" THEN parseMessageEvent(raw)
    ELSE <<>>

\* new Date(rawEvent.timestamp).getTime() of a timestamp that is missing or
\* is no date: NaN, which no comparison holds of
NaN == 0 - 1

\* parseEvent throws: a message record without its message object
\* (msg.role of undefined)
parseEventThrows(raw) == raw.type = "message" /\ ~raw.nested

\* the body of the loop of parseEvents for one line: a blank line is passed
\* over, a line that is no JSON or whose parseEvent throws is caught, a record
\* with timestamp <= sinceTimestamp is passed over
lineEvents(line, sinceTimestamp) ==
    IF line.line = "blank" THEN <<>>
    ELSE IF line.line = "garbage" THEN <<>>
    ELSE IF line.timestamp # NaN /\ line.timestamp <= sinceTimestamp THEN <<>>
    ELSE IF parseEventThrows(line) THEN <<>>
    ELSE parseEvent(line)

\* parseEvents: the records with timestamp > sinceTimestamp, each fanned out,
\* in line order
RECURSIVE parseEvents(_, _, _)
parseEvents(lines, sinceTimestamp, i) ==
    IF i > Len(lines) THEN <<>>
    ELSE lineEvents(lines[i], sinceTimestamp)
         \o parseEvents(lines, sinceTimestamp, i + 1)

\* ---------------------------------------------------- the message parser

\* generateMessageId: "generated_" and a hash of `${timestamp}|${senderId ||
\* 'unknown'}|${text}`, held as the payload
generateMessageId(timestamp, senderId, text) ==
    <<"generated", timestamp, IF falsy(senderId) THEN "unknown" ELSE senderId, text>>

\* normalizeMessage(entry.message): a session record's message carries no
\* sender and no id of its own; mts is its own timestamp, 0 when it has none:
\* rawMessage.timestamp || rawMessage.ts || Date.now()
normalizeMessage(raw, now) ==
    LET timestamp == IF raw.mts = 0 THEN now ELSE raw.mts
    IN  [message_id |-> generateMessageId(timestamp, Null, raw.text),
         sender_id |-> Null, content_text |-> raw.text, timestamp |-> timestamp]

\* parseMessages: the message records (format 1, the one session files use)
\* with timestamp >= sinceTimestamp; blank lines and lines that are no JSON
\* are passed over
RECURSIVE parseMessages(_, _, _, _)
parseMessages(lines, sinceTimestamp, now, i) ==
    IF i > Len(lines) THEN <<>>
    ELSE (IF /\ lines[i].line = "json" /\ lines[i].type = "message" /\ lines[i].nested
             /\ normalizeMessage(lines[i], now).timestamp >= sinceTimestamp
          THEN <<normalizeMessage(lines[i], now)>> ELSE <<>>)
         \o parseMessages(lines, sinceTimestamp, now, i + 1)

\* the loop of scanMessages over one file's messages
RECURSIVE insertMessages(_, _, _)
insertMessages(msgs, parsed, i) ==
    IF i > Len(parsed) THEN msgs
    ELSE insertMessages(insertMessage(msgs, parsed[i], TRUE).messages, parsed, i + 1)

\* ------------------------------------------------------------ checkpoints

CHECKPOINT_KEY == "last_scan_timestamp"
EVENTS_CHECKPOINT_KEY == "last_events_scan_timestamp"

\* checkpoint(key, value)
setCheckpoint(st, key, value) ==
    [k \in DOMAIN st \cup {key} |-> IF k = key THEN value ELSE st[k]]

\* parseInt(archive.checkpoint(key) || '0'): 0 when the key was never stored
lastScan(st, key) == IF key \in DOMAIN st THEN st[key] ELSE 0

\* -------------------------------------------------------------- the scanner

\* const sessionKey = 'agent:main:main'
SESSION_KEY == "agent:main:main"

\* the session files, in the order findSessionFiles returns them; the basename
\* is the session id
sessionFiles == <<"f1", "f2">>

\* the for loop over sessionFiles has run out
loopDoneAtOnce(idx) == TRUE

loopDone(idx) == idx > Len(sessionFiles)

\* what scanMessages and scanEvents store as the watermark: Date.now()
watermarkIsCutoff(lastTimestamp, now) == lastTimestamp

watermark(lastTimestamp, now) == now

\* a cutoff that is the stored watermark under force too
cutoffIgnoresForce(st, key, force) == lastScan(st, key)

\* let lastTimestamp = parseInt(archive.checkpoint(key) || '0'); if (force) ... = 0
cutoff(st, key, force) == IF force THEN 0 ELSE lastScan(st, key)

\* the loop of scanEvents over the files from position idx when no file fails:
\* a file with nothing new is passed over, the others get one batch each
RECURSIVE scanEventsLoop(_, _, _, _, _)
scanEventsLoop(d, fls, idx, lastTimestamp, force) ==
    IF loopDone(idx) THEN d
    ELSE LET f == sessionFiles[idx]
             evts == parseEvents(fls[f], lastTimestamp, 1)
         IN  scanEventsLoop(IF evts = <<>> THEN d
                            ELSE insertEventBatch(d, evts, SESSION_KEY, f, force).db,
                            fls, idx + 1, lastTimestamp, force)

\* the loop of scanMessages over the files from position idx when no file
\* fails, with the imported counter: each file is parsed at time now and its
\* messages are inserted one by one
RECURSIVE scanMessagesLoop(_, _, _, _, _)
scanMessagesLoop(acc, fls, idx, lastTimestamp, now) ==
    IF loopDone(idx) THEN acc
    ELSE LET parsed == parseMessages(fls[sessionFiles[idx]], lastTimestamp, now, 1)
             after == insertMessages(acc.messages, parsed, 1)
         IN  scanMessagesLoop([messages |-> after,
                               imported |-> acc.imported + Len(after) - Len(acc.messages)],
                              fls, idx + 1, lastTimestamp, now)

\* the same loop with the counters scanEvents adds up and returns
RECURSIVE scanEventsTotals(_, _, _, _, _)
scanEventsTotals(acc, fls, idx, lastTimestamp, force) ==
    IF loopDone(idx) THEN acc
    ELSE LET f == sessionFiles[idx]
             evts == parseEvents(fls[f], lastTimestamp, 1)
             out == insertEventBatch(acc.db, evts, SESSION_KEY, f, force)
         IN  scanEventsTotals(IF evts = <<>> THEN acc
                              ELSE [db |-> out.db,
                                    inserted |-> acc.inserted + out.inserted,
                                    skipped |-> acc.skipped + out.skipped,
                                    errors |-> acc.errors + out.errors],
                              fls, idx + 1, lastTimestamp, force)

\* the loop of scanEvents on a database that has no events table: every
\* insertEvent throws "no such table" at its first statement and
\* insertEventBatch counts it in errors
RECURSIVE scanEventsNoTable(_, _, _, _)
scanEventsNoTable(acc, fls, idx, lastTimestamp) ==
    IF loopDone(idx) THEN acc
    ELSE LET evts == parseEvents(fls[sessionFiles[idx]], lastTimestamp, 1)
         IN  scanEventsNoTable([acc EXCEPT !.errors = @ + Len(evts)],
                               fls, idx + 1, lastTimestamp)

\* the loop of scanEvents on a database with the tables tbls
scanEventsOn(tbls, acc, fls, idx, lastTimestamp, force) ==
    IF "events" \in tbls
    THEN scanEventsTotals(acc, fls, idx, lastTimestamp, force)
    ELSE scanEventsNoTable(acc, fls, idx, lastTimestamp)

\* ------------------------------------------------- SpecStore: direct calls

EvIds == {"A", "B"}

\* events as the parser leaves them: session_id unset except on a session event
ApiEvents ==
    {[event_id |-> id, parent_event_id |-> p, session_id |-> Null,
      event_type |-> "message", timestamp |-> 1,
      thinking_content |-> Null, usage |-> FALSE,
      content_json |-> [noMessage EXCEPT !.role = "user"]] :
        id \in EvIds, p \in EvIds \cup {Null}}
    \cup
    {[event_id |-> id, parent_event_id |-> Null, session_id |-> id,
      event_type |-> "session", timestamp |-> 1,
      thinking_content |-> Null, usage |-> FALSE, content_json |-> noMessage] :
        id \in EvIds}

ApiBatches == SeqsUpTo(ApiEvents, MaxBatch) \ {<<>>}

Idle == [op |-> "idle"]

InitStore ==
    /\ events = {}
    /\ thinking_blocks = {}
    /\ usage_stats = {}
    /\ foreign_keys = TRUE          \* constructor: pragma('foreign_keys = ON')
    /\ messages = <<>>
    /\ messages_fts = {}
    /\ edits = <<>>
    /\ reactions = {}
    /\ tables = StoreTables \cup EventTables
    /\ sessions = {}
    /\ archive_state = [k \in {} |-> Null]
    /\ files = [f \in {} |-> <<>>]
    /\ clock = 1
    /\ scan = [pc |-> "idle"]
    /\ call = Idle
    /\ forceUsed = FALSE

setDb(d) ==
    /\ events' = d.events
    /\ thinking_blocks' = d.thinking_blocks
    /\ usage_stats' = d.usage_stats
    /\ foreign_keys' = d.foreign_keys

\* archive.insertEventBatch(evts, key, {sessionId, disableForeignKeys}) returns
InsertEventBatchCall ==
    /\ call.op = "idle"
    /\ \E evts \in ApiBatches, sessionId \in {Null, "S"}, force \in BOOLEAN :
          LET out == insertEventBatch(Db, evts, SESSION_KEY, sessionId, force)
          IN  /\ setDb(out.db)
              /\ call' = [op |-> "insertEventBatch", threw |-> FALSE,
                          evts |-> fillSessionId(evts, sessionId), force |-> force,
                          pre |-> events,
                          inserted |-> out.inserted, skipped |-> out.skipped,
                          errors |-> out.errors, log |-> out.log]
              /\ forceUsed' = (forceUsed \/ force)
    /\ UNCHANGED <<sessions, tables, msgTables, messages, archive_state, files, clock, scan>>

\* archive.insertEventBatch(...) throws: the transaction could not commit
InsertEventBatchFails ==
    /\ call.op = "idle"
    /\ \E force \in BOOLEAN :
          /\ setDb(insertEventBatchThrows(Db, force))
          /\ call' = [op |-> "insertEventBatch", threw |-> TRUE, force |-> force,
                      evts |-> <<>>, pre |-> events,
                      inserted |-> 0, skipped |-> 0, errors |-> 0, log |-> <<>>]
          /\ forceUsed' = (forceUsed \/ force)
    /\ UNCHANGED <<sessions, tables, msgTables, messages, archive_state, files, clock, scan>>

\* archive.insertEvent(e, key) called on its own; an exception reaches the caller
InsertEventCall ==
    /\ call.op = "idle"
    /\ \E e \in ApiEvents, sid \in {Null, "S"} :
          LET ev == IF e.event_type = "session" THEN e ELSE [e EXCEPT !.session_id = sid]
              out == insertEvent(Db, ev, SESSION_KEY, TRUE)
          IN  /\ setDb(out.db)
              /\ call' = [op |-> "insertEvent", threw |-> (out.ret = "throw"),
                          evts |-> <<ev>>, force |-> FALSE, pre |-> events,
                          inserted |-> 0, skipped |-> 0, errors |-> 0,
                          log |-> <<out.ret>>]
    /\ UNCHANGED <<sessions, tables, msgTables, messages, archive_state, files, clock, scan, forceUsed>>

\* the caller goes on to its next call
Return ==
    /\ call.op # "idle"
    /\ call' = Idle
    /\ UNCHANGED <<sessions, tables, msgTables, events, thinking_blocks, usage_stats, foreign_keys, messages,
                   archive_state, files, clock, scan, forceUsed>>

NextStore ==
    \/ InsertEventBatchCall
    \/ InsertEventBatchFails
    \/ InsertEventCall
    \/ Return

SpecStore == InitStore /\ [][NextStore]_vars

\* --------------------------------------------- SpecAgain: a batch, twice

\* archive.insertEventBatch(evts, key, options) called again with the array
\* the last call was given, which that call left with its session ids filled
InsertEventBatchAgain ==
    /\ call.op = "insertEventBatch"
    /\ \E sessionId \in {Null, "S"}, force \in BOOLEAN :
          LET out == insertEventBatch(Db, call.evts, SESSION_KEY, sessionId, force)
          IN  /\ setDb(out.db)
              /\ call' = [op |-> "again", first |-> call, pre |-> Db, force |-> force,
                          inserted |-> out.inserted, skipped |-> out.skipped,
                          errors |-> out.errors]
              /\ forceUsed' = (forceUsed \/ force)
    /\ UNCHANGED <<sessions, tables, msgTables, messages, archive_state, files, clock, scan>>

NextAgain ==
    \/ InsertEventBatchCall
    \/ InsertEventBatchAgain
    \/ Return

SpecAgain == InitStore /\ [][NextAgain]_vars

\* ------------------------------------------- claims on the event API

isBatch == call.op = "insertEventBatch" /\ ~call.threw

\* the event at position i was not stored when its insert was tried
newAt(i) ==
    /\ ~hasEvent(call.pre, call.evts[i].event_id)
    /\ \A j \in 1..(i - 1) :
          ~(call.evts[j].event_id = call.evts[i].event_id /\ call.log[j] = "rowid")

\* the event at position i names a parent that was neither stored before the
\* batch nor inserted earlier in it
parentMissingAt(i) ==
    /\ call.evts[i].parent_event_id # Null
    /\ ~hasEvent(call.pre, call.evts[i].parent_event_id)
    /\ \A j \in 1..(i - 1) :
          ~(call.evts[j].event_id = call.evts[i].parent_event_id /\ call.log[j] = "rowid")

countLog(ret) == Cardinality({i \in 1..Len(call.log) : call.log[i] = ret})

\* C5: in a normal-mode batch a new event whose parent (another event) is
\* neither stored nor inserted earlier in the batch is not inserted and is
\* counted in errors, and every event of the batch is processed.
C5_NormalBatchDropsOrphan ==
    (isBatch /\ ~call.force) =>
        /\ Len(call.log) = Len(call.evts)
        /\ call.errors = countLog("throw")
        /\ call.skipped = countLog("null")
        /\ \A i \in 1..Len(call.evts) :
              (/\ newAt(i)
               /\ parentMissingAt(i)
               /\ call.evts[i].parent_event_id # call.evts[i].event_id)
              => call.log[i] = "throw"

\* C6 as stated: in a force-mode batch every event whose parent is not in the
\* Store is inserted and counted in inserted.
C6_ForceBatchInsertsEveryOrphan ==
    (isBatch /\ call.force) =>
        \A i \in 1..Len(call.evts) : parentMissingAt(i) => call.log[i] = "rowid"

\* C6 amended: in a force-mode batch an event that is not already stored and
\* carries a session id, and whose parent is not in the Store, is inserted and
\* counted in inserted, not in errors.
C6_ForceBatchInsertsNewOrphan ==
    (isBatch /\ call.force) =>
        /\ call.inserted = countLog("rowid")
        /\ call.errors = countLog("throw")
        /\ \A i \in 1..Len(call.evts) :
              (/\ parentMissingAt(i)
               /\ newAt(i)
               /\ call.evts[i].session_id # Null)
              => call.log[i] = "rowid"

C6_Witness ==
    /\ isBatch
    /\ call.force
    /\ \E i \in 1..Len(call.evts) :
          /\ parentMissingAt(i)
          /\ call.log[i] = "rowid"
          /\ call.evts[i].parent_event_id # call.evts[i].event_id
          /\ ~hasEvent(events, call.evts[i].parent_event_id)

\* C7: outside a force-mode batch (a batch is one step here, so in every
\* state) foreign-key enforcement of the connection is on.
C7_ForeignKeysOnOutsideBatch == foreign_keys = TRUE

\* C8: as long as only normal-mode inserts and batches have run, every stored
\* event's parent_event_id is null or the event_id of a stored event.
C8_ReferentialIntegrity ==
    ~forceUsed =>
        \A r \in events : r.parent_event_id = Null \/ hasEvent(events, r.parent_event_id)

\* a normal-mode batch has stored a child of a stored event
C8_Witness ==
    /\ ~forceUsed
    /\ isBatch
    /\ ~call.force
    /\ \E i \in 1..Len(call.evts) :
          /\ call.log[i] = "rowid"
          /\ call.evts[i].parent_event_id \notin {Null, call.evts[i].event_id}
          /\ hasEvent(events, call.evts[i].parent_event_id)

\* ------------------------------------- SpecFan: one source record ingested

Blocks ==
    {[type |-> "text", id |-> Null, thinking |-> Null],
     [type |-> "toolCall", id |-> "T1", thinking |-> Null],
     [type |-> "toolUse", id |-> "T2", thinking |-> Null],
     [type |-> "thinking", id |-> Null, thinking |-> "hm"],
     [type |-> "thinking", id |-> Null, thinking |-> ""]}

countBlocks(content, types) == Cardinality({i \in 1..Len(content) : content[i].type \in types})

toolIds(content) ==
    {content[i].id : i \in {j \in 1..Len(content) : content[j].type \in {"toolCall", "toolUse"}}}

\* message records: any role, up to MaxBlocks blocks of which at most one is a
\* thinking block
FanRecords ==
    {[type |-> "message", id |-> "M", parentId |-> p, timestamp |-> 1,
      role |-> role, content |-> c, usage |-> u, mts |-> 0, text |-> "", line |-> "json", nested |-> TRUE] :
        p \in {Null, "P"}, role \in {"user", "assistant", "toolResult"},
        c \in {c \in SeqsUpTo(Blocks, MaxBlocks) : countBlocks(c, {"thinking"}) <= 1},
        u \in BOOLEAN}

parentRow ==
    [event_id |-> "P", parent_event_id |-> Null, session_key |-> SESSION_KEY,
     session_id |-> "S", event_type |-> "message", timestamp |-> 1,
     content_json |-> [noMessage EXCEPT !.role = "user"]]

\* a Store that holds the record's parent or does not, and the record about to
\* be ingested by a normal or a force scan
InitFan ==
    /\ events \in {{}, {parentRow}}
    /\ thinking_blocks = {}
    /\ usage_stats = {}
    /\ foreign_keys = TRUE
    /\ messages = <<>>
    /\ messages_fts = {}
    /\ edits = <<>>
    /\ reactions = {}
    /\ tables = StoreTables \cup EventTables
    /\ sessions = {}
    /\ archive_state = [k \in {} |-> Null]
    /\ files = [f \in {} |-> <<>>]
    /\ clock = 1
    /\ scan = [pc |-> "idle"]
    /\ \E raw \in FanRecords, force \in BOOLEAN :
          call = [op |-> "record", raw |-> raw, force |-> force, followed |-> FALSE]
    /\ forceUsed = FALSE

\* the record goes through parseEvent and insertEventBatch as in scanEvents
IngestRecord ==
    /\ call.op = "record"
    /\ LET evts == parseEvent(call.raw)
           out == insertEventBatch(Db, evts, SESSION_KEY, "S", call.force)
       IN  /\ setDb(out.db)
           /\ call' = [op |-> "ingested", raw |-> call.raw, force |-> call.force,
                       followed |-> FALSE, evts |-> evts, pre |-> events,
                       inserted |-> out.inserted, skipped |-> out.skipped,
                       errors |-> out.errors, log |-> out.log]
    /\ forceUsed' = call.force
    /\ UNCHANGED <<sessions, tables, msgTables, messages, archive_state, files, clock, scan>>

\* the next record of the session, which names the ingested record as its
\* parent, goes the same way
nextRecord ==
    [type |-> "message", id |-> "N", parentId |-> call.raw.id, timestamp |-> 2,
     role |-> "user", content |-> <<>>, usage |-> FALSE, mts |-> 0, text |-> "",
     line |-> "json", nested |-> TRUE]

IngestNextRecord ==
    /\ call.op = "ingested"
    /\ ~call.followed
    /\ setDb(insertEventBatch(Db, parseEvent(nextRecord), SESSION_KEY, "S", call.force).db)
    /\ call' = [call EXCEPT !.followed = TRUE]
    /\ UNCHANGED <<sessions, tables, msgTables, messages, archive_state, files, clock, scan, forceUsed>>

NextFan ==
    \/ IngestRecord
    \/ IngestNextRecord

SpecFan == InitFan /\ [][NextFan]_vars

\* the Event rows the ingested record stands for: its own and its children's
ownRows == {r \in events : r.event_id = call.raw.id}
childRows == {r \in events : r.parent_event_id = call.raw.id}
derivedRows ==
    {r \in childRows : r.event_type \in {"tool_call", "thinking_block", "usage_stats"}}

K == countBlocks(call.raw.content, {"toolCall", "toolUse"})
J == countBlocks(call.raw.content, {"thinking"})
U == IF call.raw.usage THEN 1 ELSE 0

\* C10 as stated: after ingest, an assistant record with K tool-call blocks, J
\* thinking blocks and U usage objects has its message row and K + J + U rows
\* whose parent_event_id is its id.
C10_FanOutComplete ==
    (call.op = "ingested" /\ call.raw.role = "assistant") =>
        /\ Cardinality(ownRows) = 1
        /\ Cardinality(childRows) = K + J + U

\* C10 amended: for a record whose message row the ingest stored (it was not
\* rejected for a missing parent), the Store holds that one message row and
\* exactly K + J + U tool_call, thinking_block and usage_stats rows whose
\* parent_event_id is the record's id, K being the number of distinct
\* tool-call block ids; rows of later records that name it as parent are not
\* counted.
C10_FanOutOfStoredMessage ==
    (call.op = "ingested" /\ call.raw.role = "assistant" /\ ownRows # {}) =>
        /\ Cardinality(ownRows) = 1
        /\ Cardinality(derivedRows) = Cardinality(toolIds(call.raw.content)) + J + U
        /\ \A r \in derivedRows : r.session_id = "S"

C10_Witness ==
    /\ call.op = "ingested"
    /\ call.raw.role = "assistant"
    /\ K = 2 /\ J = 1 /\ U = 1
    /\ Cardinality(derivedRows) = 4
    /\ call.inserted = 5
    /\ call.followed

\* ------------------------------------------------ SpecMsg: direct calls

ApiMessages ==
    [message_id : {"m1", "m2"}, sender_id : {Null, "", "u1"},
     content_text : {Null, "hi"}, timestamp : {1000, 1999, 3000}]

InitMsg ==
    /\ events = {}
    /\ thinking_blocks = {}
    /\ usage_stats = {}
    /\ foreign_keys = TRUE
    /\ messages = <<>>
    /\ messages_fts = {}
    /\ edits = <<>>
    /\ reactions = {}
    /\ tables = StoreTables \cup EventTables
    /\ sessions = {}
    /\ archive_state = [k \in {} |-> Null]
    /\ files = [f \in {} |-> <<>>]
    /\ clock = 1
    /\ scan = [pc |-> "idle"]
    /\ call = [op |-> "insertMessage", args |-> <<>>, rets |-> <<>>]
    /\ forceUsed = FALSE

\* archive.insertMessage(m, {skipIfExists: true})
InsertMessageCall ==
    /\ Len(call.args) < MaxInserts
    /\ \E m \in ApiMessages :
          LET out == insertMessage(messages, m, TRUE)
          IN  /\ messages' = out.messages
              /\ messages_fts' = messages_fts_insert(messages_fts, messages, out.messages)
              /\ call' = [call EXCEPT !.args = Append(@, m), !.rets = Append(@, out.ret)]
    /\ UNCHANGED <<sessions, tables, edits, reactions, events, thinking_blocks, usage_stats, foreign_keys,
                   archive_state, files, clock, scan, forceUsed>>

NextMsg == InsertMessageCall

SpecMsg == InitMsg /\ [][NextMsg]_vars

m1 == call.args[1]
m2 == call.args[2]

sameFingerprint == hashMessage(m1) = hashMessage(m2)
sameMessageId == m1.message_id = m2.message_id
nearDuplicate ==
    /\ m1.sender_id = m2.sender_id
    /\ m1.content_text = m2.content_text
    /\ Abs(m1.timestamp - m2.timestamp) < FUZZY_WINDOW

userRecord(id, parentId, ts, mts, text) ==
    [type |-> "message", id |-> id, parentId |-> parentId, timestamp |-> ts,
     role |-> "user", content |-> <<>>, usage |-> FALSE, mts |-> mts, text |-> text,
     line |-> "json", nested |-> TRUE]

\* f1: a parent and its child in order, or the child first
\* f2: a record whose parent is in f1
ScanFiles ==
    {[f1 |-> a, f2 |-> <<userRecord("C", "A", 1, 1, "c")>>] :
        a \in {<<userRecord("A", Null, 1, 1, "a"), userRecord("B", "A", 2, 2, "b")>>,
               <<userRecord("B", "A", 2, 2, "b"), userRecord("A", Null, 2, 2, "a")>>}}

\* the checkpoints before any scan, and those an earlier scan has left
ScanCheckpoints ==
    {[k \in {} |-> 0], [k \in {CHECKPOINT_KEY, EVENTS_CHECKPOINT_KEY} |-> 1]}

noScan ==
    [pc |-> "idle", mode |-> "messages", force |-> FALSE, lastTimestamp |-> 0,
     midx |-> 1, eidx |-> 1, pending |-> <<>>, pre |-> [k \in {} |-> 0],
     mBefore |-> <<>>, mAll |-> <<>>, eBefore |-> {}, eAll |-> {}]

InitScan ==
    /\ events = {}
    /\ thinking_blocks = {}
    /\ usage_stats = {}
    /\ foreign_keys = TRUE
    /\ messages = <<>>
    /\ messages_fts = {}
    /\ edits = <<>>
    /\ reactions = {}
    /\ tables = StoreTables \cup EventTables
    /\ sessions = {}
    /\ archive_state \in ScanCheckpoints
    /\ files \in ScanFiles
    /\ clock = 1
    /\ scan = [noScan EXCEPT !.pre = archive_state]
    /\ call = Idle
    /\ forceUsed = FALSE

\* Date.now() moves on
Tick ==
    /\ clock < MaxClock
    /\ clock' = clock + 1
    /\ UNCHANGED <<sessions, tables, msgTables, events, thinking_blocks, usage_stats, foreign_keys, messages,
                   archive_state, files, scan, call, forceUsed>>

\* scanAndArchive({mode, force}): a new MessageArchive, then the first scan
StartScan ==
    /\ scan.pc \in {"idle", "crashed"}
    /\ \E mode \in {"messages", "events", "both"}, force \in BOOLEAN :
          scan' = [pc |-> IF mode = "events" THEN "events" ELSE "messages",
                   mode |-> mode, force |-> force,
                   lastTimestamp |->
                       cutoff(archive_state,
                              IF mode = "events" THEN EVENTS_CHECKPOINT_KEY ELSE CHECKPOINT_KEY,
                              force),
                   midx |-> 1, eidx |-> 1, pending |-> <<>>, pre |-> archive_state,
                   mBefore |-> messages, mAll |-> messages,
                   eBefore |-> events, eAll |-> events]
    /\ foreign_keys' = TRUE
    /\ UNCHANGED <<sessions, tables, msgTables, events, thinking_blocks, usage_stats, messages, archive_state,
                   files, clock, call, forceUsed>>

\* scanMessages, one file: parse it; nothing new, go on to the next file
ScanMessagesFile ==
    /\ scan.pc = "messages"
    /\ ~loopDone(scan.midx)
    /\ LET parsed == parseMessages(files[sessionFiles[scan.midx]], scan.lastTimestamp, clock, 1)
       IN  scan' = IF parsed = <<>>
                   THEN [scan EXCEPT !.midx = @ + 1]
                   ELSE [scan EXCEPT !.pc = "inserting", !.pending = parsed,
                                     !.mBefore = messages,
                                     !.mAll = insertMessages(messages, parsed, 1)]
    /\ UNCHANGED <<sessions, tables, msgTables, events, thinking_blocks, usage_stats, foreign_keys, messages,
                   archive_state, files, clock, call, forceUsed>>

\* scanMessages, one message of the file: archive.insertMessage(msg), on its own
ScanMessagesInsert ==
    /\ scan.pc = "inserting"
    /\ messages' = insertMessage(messages, Head(scan.pending), TRUE).messages
    /\ messages_fts' = messages_fts_insert(messages_fts, messages, messages')
    /\ scan' = IF Len(scan.pending) = 1
               THEN [scan EXCEPT !.pc = "messages", !.pending = <<>>, !.midx = @ + 1]
               ELSE [scan EXCEPT !.pending = Tail(@)]
    /\ UNCHANGED <<sessions, tables, edits, reactions, events, thinking_blocks, usage_stats, foreign_keys,
                   archive_state, files, clock, call, forceUsed>>

\* scanMessages, after the loop: the checkpoint; mode both goes on to scanEvents
ScanMessagesEnd ==
    /\ scan.pc = "messages"
    /\ loopDone(scan.midx)
    /\ LET st == setCheckpoint(archive_state, CHECKPOINT_KEY,
                               watermark(scan.lastTimestamp, clock))
       IN  /\ archive_state' = st
           /\ call' = [op |-> "checkpoint", key |-> CHECKPOINT_KEY, force |-> scan.force,
                       old |-> lastScan(archive_state, CHECKPOINT_KEY),
                       new |-> lastScan(st, CHECKPOINT_KEY)]
           /\ scan' = IF scan.mode = "both"
                      THEN [scan EXCEPT !.pc = "events",
                               !.lastTimestamp = cutoff(st, EVENTS_CHECKPOINT_KEY, scan.force)]
                      ELSE [scan EXCEPT !.pc = "idle"]
    /\ UNCHANGED <<sessions, tables, msgTables, events, thinking_blocks, usage_stats, foreign_keys, messages,
                   files, clock, forceUsed>>

\* scanEvents, one file: parse it and commit its events as one batch
ScanEventsFile ==
    /\ scan.pc = "events"
    /\ ~loopDone(scan.eidx)
    /\ LET f == sessionFiles[scan.eidx]
           evts == parseEvents(files[f], scan.lastTimestamp, 1)
           out == insertEventBatch(Db, evts, SESSION_KEY, f, scan.force)
       IN  IF evts = <<>>
           THEN /\ scan' = [scan EXCEPT !.eidx = @ + 1]
                /\ UNCHANGED <<events, thinking_blocks, usage_stats, foreign_keys, forceUsed>>
           ELSE /\ setDb(out.db)
                /\ scan' = [scan EXCEPT !.eidx = @ + 1, !.eBefore = events,
                                        !.eAll = out.db.events]
                /\ forceUsed' = (forceUsed \/ scan.force)
    /\ UNCHANGED <<sessions, tables, msgTables, messages, archive_state, files, clock, call>>

\* scanEvents, one file whose processing throws: the file cannot be read, or
\* its batch cannot commit; the catch of the loop goes on to the next file
ScanEventsFileFails ==
    /\ scan.pc = "events"
    /\ ~loopDone(scan.eidx)
    /\ \E atCommit \in BOOLEAN :
          setDb(IF atCommit THEN insertEventBatchThrows(Db, scan.force) ELSE Db)
    /\ scan' = [scan EXCEPT !.eidx = @ + 1]
    /\ UNCHANGED <<sessions, tables, msgTables, messages, archive_state, files, clock, call, forceUsed>>

\* scanEvents, after the loop: the checkpoint
ScanEventsEnd ==
    /\ scan.pc = "events"
    /\ loopDone(scan.eidx)
    /\ LET st == setCheckpoint(archive_state, EVENTS_CHECKPOINT_KEY,
                               watermark(scan.lastTimestamp, clock))
       IN  /\ archive_state' = st
           /\ call' = [op |-> "checkpoint", key |-> EVENTS_CHECKPOINT_KEY, force |-> scan.force,
                       old |-> lastScan(archive_state, EVENTS_CHECKPOINT_KEY),
                       new |-> lastScan(st, EVENTS_CHECKPOINT_KEY)]
    /\ scan' = [scan EXCEPT !.pc = "idle"]
    /\ UNCHANGED <<sessions, tables, msgTables, events, thinking_blocks, usage_stats, foreign_keys, messages,
                   files, clock, forceUsed>>

\* the scanner process is killed; what was committed stays
Crash ==
    /\ scan.pc \in {"messages", "inserting", "events"}
    /\ scan' = [scan EXCEPT !.pc = "crashed"]
    /\ UNCHANGED <<sessions, tables, msgTables, events, thinking_blocks, usage_stats, foreign_keys, messages,
                   archive_state, files, clock, call, forceUsed>>

NextScan ==
    \/ Tick
    \/ StartScan
    \/ ScanMessagesFile
    \/ ScanMessagesInsert
    \/ ScanMessagesEnd
    \/ ScanEventsFile
    \/ ScanEventsFileFails
    \/ ScanEventsEnd
    \/ Crash

SpecScan == InitScan /\ [][NextScan]_vars

\* the checkpoint under key is what it was when the running scan started
sameCheckpoint(key) ==
    /\ (key \in DOMAIN archive_state) = (key \in DOMAIN scan.pre)
    /\ lastScan(archive_state, key) = lastScan(scan.pre, key)

C4_WatermarkMonotonic ==
    [][\A key \in {CHECKPOINT_KEY, EVENTS_CHECKPOINT_KEY} :
          lastScan(archive_state', key) >= lastScan(archive_state, key)]_vars

\* a forced scan, whose cutoff was 0, has just rewritten a watermark that an
\* earlier scan had set
C4_Witness ==
    /\ call.op = "checkpoint"
    /\ call.force
    /\ call.old > 0
    /\ call.new >= call.old

\* C9: when the scanner is killed, of the file it was working on either every
\* new row is stored or none is
C9_FileIngestAllOrNothing ==
    scan.pc = "crashed" =>
        /\ messages \in {scan.mBefore, scan.mAll}
        /\ events \in {scan.eBefore, scan.eAll}

\* the events half alone
C9_EventsFileAllOrNothing ==
    scan.pc = "crashed" => events \in {scan.eBefore, scan.eAll}

\* ------------------------- SpecRescan: the events scan run twice in a row

assistantRecord(id, parentId, ts) ==
    [type |-> "message", id |-> id, parentId |-> parentId, timestamp |-> ts,
     role |-> "assistant",
     content |-> <<[type |-> "toolCall", id |-> "T1", thinking |-> Null],
                   [type |-> "thinking", id |-> Null, thinking |-> "hm"]>>,
     usage |-> TRUE, mts |-> ts, text |-> "", line |-> "json", nested |-> TRUE]

\* f1: a parent and its child in order, the child first, or an assistant
\* record that fans out; f2: a record whose parent is in f1
RescanFiles ==
    {[f1 |-> a, f2 |-> <<userRecord("C", "A", 1, 1, "c")>>] :
        a \in {<<userRecord("A", Null, 1, 1, "a"), userRecord("B", "A", 2, 2, "b")>>,
               <<userRecord("B", "A", 2, 2, "b"), userRecord("A", Null, 2, 2, "a")>>,
               <<assistantRecord("A", Null, 1)>>}}

\* any time, a Store that is empty or holds an event, a watermark that was
\* never set or was set, and the flag both runs are given
InitRescan ==
    /\ events \in {{}, {eventRow([baseEvent(userRecord("A", Null, 1, 1, "a"), "message")
                                     EXCEPT !.session_id = "f1"], SESSION_KEY)}}
    /\ thinking_blocks = {}
    /\ usage_stats = {}
    /\ foreign_keys = TRUE
    /\ messages = <<>>
    /\ messages_fts = {}
    /\ edits = <<>>
    /\ reactions = {}
    /\ tables = StoreTables \cup EventTables
    /\ sessions = {}
    /\ archive_state \in ScanCheckpoints
    /\ files \in RescanFiles
    /\ clock \in 1..MaxClock
    /\ scan = noScan
    /\ \E force \in BOOLEAN :
          call = [op |-> "rescan", force |-> force, runs |-> 0,
                  once |-> [events |-> {}, thinking_blocks |-> {}, usage_stats |-> {}],
                  inserted |-> 0, skipped |-> 0, errors |-> 0]
    /\ forceUsed = FALSE

\* scanAndArchive({mode: 'events', force}) from start to end, no file failing
RescanEvents ==
    /\ call.op = "rescan"
    /\ call.runs < 2
    /\ LET lastTimestamp == cutoff(archive_state, EVENTS_CHECKPOINT_KEY, call.force)
           d == scanEventsLoop([Db EXCEPT !.foreign_keys = TRUE], files, 1,
                               lastTimestamp, call.force)
           totals == scanEventsTotals([db |-> [Db EXCEPT !.foreign_keys = TRUE],
                                       inserted |-> 0, skipped |-> 0, errors |-> 0],
                                      files, 1, lastTimestamp, call.force)
       IN  /\ setDb(d)
           /\ call' = [call EXCEPT
                         !.runs = @ + 1,
                         !.inserted = totals.inserted,
                         !.skipped = totals.skipped,
                         !.errors = totals.errors,
                         !.once = IF call.runs = 0
                                  THEN [events |-> d.events,
                                        thinking_blocks |-> d.thinking_blocks,
                                        usage_stats |-> d.usage_stats]
                                  ELSE @]
    /\ archive_state' =
          setCheckpoint(archive_state, EVENTS_CHECKPOINT_KEY,
                        watermark(cutoff(archive_state, EVENTS_CHECKPOINT_KEY, call.force),
                                  clock))
    /\ forceUsed' = (forceUsed \/ call.force)
    /\ UNCHANGED <<sessions, tables, msgTables, messages, files, clock, scan>>

NextRescan ==
    \/ RescanEvents
    \/ Tick

SpecRescan == InitRescan /\ [][NextRescan]_vars

\* C1: after the second of two events scans of the same files in a row the
\* Event, ThinkingBlock and UsageStats rows are those left by the first
C1_EventsIngestIdempotent ==
    (call.op = "rescan" /\ call.runs = 2) =>
        /\ events = call.once.events
        /\ thinking_blocks = call.once.thinking_blocks
        /\ usage_stats = call.once.usage_stats

\* the same for two forced scans only
C1_ForcedEventsIngestIdempotent ==
    (call.op = "rescan" /\ call.runs = 2 /\ call.force) =>
        /\ events = call.once.events
        /\ thinking_blocks = call.once.thinking_blocks
        /\ usage_stats = call.once.usage_stats

\* ------------------------------- SpecParse: one file parsed and ingested

sourceLine(kind, type, id, parentId, ts, role, content, usage, nested) ==
    [type |-> type, id |-> id, parentId |-> parentId, timestamp |-> ts,
     role |-> role, content |-> content, usage |-> usage, mts |-> 0, text |-> "",
     line |-> kind, nested |-> nested]

\* a blank line, a line that is no JSON, a record of a type the parser does
\* not know, a session record, message records (one that fans out, one with no
\* timestamp, one with no message object) and a custom record
ParseLines ==
    {sourceLine("blank", Null, Null, Null, 0, Null, <<>>, FALSE, FALSE),
     sourceLine("garbage", Null, Null, Null, 0, Null, <<>>, FALSE, FALSE),
     sourceLine("json", "compaction", "Z", Null, 2, Null, <<>>, FALSE, FALSE),
     sourceLine("json", "session", "S1", Null, 1, Null, <<>>, FALSE, FALSE),
     sourceLine("json", "message", "A", Null, 1, "user", <<>>, FALSE, TRUE),
     sourceLine("json", "message", "B", "A", 2, "assistant",
                <<[type |-> "toolCall", id |-> "T1", thinking |-> Null],
                  [type |-> "thinking", id |-> Null, thinking |-> "hm"]>>, TRUE, TRUE),
     sourceLine("json", "message", "N", Null, NaN, "user", <<>>, FALSE, TRUE),
     sourceLine("json", "message", "X", Null, 2, "user", <<>>, FALSE, FALSE),
     sourceLine("json", "custom", "K", "A", 2, Null, <<>>, FALSE, FALSE)}

\* a Store that is empty or holds the event A, a file of up to MaxLines lines,
\* a watermark and the flag of the scan
InitParse ==
    /\ events \in {{}, {eventRow([baseEvent(userRecord("A", Null, 1, 1, "a"), "message")
                                     EXCEPT !.session_id = "f1"], SESSION_KEY)}}
    /\ thinking_blocks = {}
    /\ usage_stats = {}
    /\ foreign_keys = TRUE
    /\ messages = <<>>
    /\ messages_fts = {}
    /\ edits = <<>>
    /\ reactions = {}
    /\ tables = StoreTables \cup EventTables
    /\ sessions = {}
    /\ archive_state = [k \in {} |-> Null]
    /\ files \in {[f1 |-> c] : c \in SeqsUpTo(ParseLines, MaxLines)}
    /\ clock = 1
    /\ scan = noScan
    /\ \E since \in 0..1, force \in BOOLEAN :
          call = [op |-> "file", since |-> since, force |-> force]
    /\ forceUsed = FALSE

\* eventParser.parseEvents(sessionFile, lastTimestamp), then the batch as in
\* scanEvents (no batch when nothing was parsed)
ParseFile ==
    /\ call.op = "file"
    /\ LET out == parseEvents(files["f1"], call.since, 1)
           res == insertEventBatch(Db, out, SESSION_KEY, "f1", call.force)
       IN  /\ setDb(IF out = <<>> THEN Db ELSE res.db)
           /\ call' = [op |-> "parsed", since |-> call.since, force |-> call.force,
                       out |-> out, again |-> <<>>, pre |-> events,
                       log |-> IF out = <<>> THEN <<>> ELSE res.log]
    /\ forceUsed' = call.force
    /\ UNCHANGED <<sessions, tables, msgTables, messages, archive_state, files, clock, scan>>

\* a second EventParser parses the same file
ParseAgain ==
    /\ call.op = "parsed"
    /\ call' = [call EXCEPT !.op = "reparsed",
                            !.again = parseEvents(files["f1"], call.since, 1)]
    /\ UNCHANGED <<sessions, tables, msgTables, events, thinking_blocks, usage_stats, foreign_keys, messages,
                   archive_state, files, clock, scan, forceUsed>>

NextParse ==
    \/ ParseFile
    \/ ParseAgain

SpecParse == InitParse /\ [][NextParse]_vars

ids(evts) == [i \in 1..Len(evts) |-> evts[i].event_id]

\* the ids the spec gives the events of a message record: the record's own,
\* then {id}_tool_{block id} and {id}_thinking in block order, then {id}_usage
RECURSIVE blockIds(_, _, _)
blockIds(raw, content, i) ==
    IF i > Len(content) THEN <<>>
    ELSE (IF content[i].type \in {"toolCall", "toolUse"}
          THEN <<raw.id \o "_tool_" \o content[i].id>>
          ELSE IF content[i].type = "thinking" THEN <<raw.id \o "_thinking">>
          ELSE <<>>)
         \o blockIds(raw, content, i + 1)

recordIds(raw) ==
    IF raw.type # "message" THEN <<raw.id>>
    ELSE <<raw.id>>
         \o (IF raw.role = "assistant" THEN blockIds(raw, raw.content, 1) ELSE <<>>)
         \o (IF raw.role = "assistant" /\ raw.usage THEN <<raw.id \o "_usage">> ELSE <<>>)

RECURSIVE fileIds(_, _, _)
fileIds(lines, sinceTimestamp, i) ==
    IF i > Len(lines) THEN <<>>
    ELSE (IF lineEvents(lines[i], sinceTimestamp) = <<>> THEN <<>> ELSE recordIds(lines[i]))
         \o fileIds(lines, sinceTimestamp, i + 1)

\* C11: a second parse of the same records gives the same list of event ids
\* as the first, and the ids of the synthetic events are {id}_tool_{block id},
\* {id}_thinking and {id}_usage
C11_SyntheticIdsStable ==
    call.op = "reparsed" =>
        /\ ids(call.again) = ids(call.out)
        /\ ids(call.out) = fileIds(files["f1"], call.since, 1)

\* a record with a tool call, a thinking block and usage was parsed twice
C11_Witness ==
    /\ call.op = "reparsed"
    /\ \E i \in 1..Len(call.again) : call.again[i].event_id = "B_tool_T1"
    /\ \E i \in 1..Len(call.again) : call.again[i].event_id = "B_thinking"
    /\ \E i \in 1..Len(call.again) : call.again[i].event_id = "B_usage"

\* what the parser is to return: the fan-outs, in line order, of the lines that
\* are JSON records of a type the parser knows, with their message object if
\* they are messages, and with a timestamp greater than the watermark
knownTypes == {"session", "model_change", "thinking_level_change", "custom", "message"}

RECURSIVE newRecordEvents(_, _, _)
newRecordEvents(lines, w, i) ==
    IF i > Len(lines) THEN <<>>
    ELSE (IF /\ lines[i].line = "json"
             /\ lines[i].type \in knownTypes
             /\ ~parseEventThrows(lines[i])
             /\ lines[i].timestamp # NaN
             /\ lines[i].timestamp > w
          THEN parseEvent(lines[i]) ELSE <<>>)
         \o newRecordEvents(lines, w, i + 1)

\* C12: the parser returns exactly the fan-outs, in line order, of the records
\* of a known type whose timestamp is greater than the watermark; blank lines,
\* lines that are no JSON and records of another type give nothing and stop
\* nothing
C12_ParserReturnsNewRecords ==
    call.op = "parsed" => call.out = newRecordEvents(files["f1"], call.since, 1)

\* the same when every record of the file has a timestamp that is a date
C12_ParserReturnsNewDatedRecords ==
    (call.op = "parsed" /\ \A i \in 1..Len(files["f1"]) : files["f1"][i].timestamp # NaN)
        => call.out = newRecordEvents(files["f1"], call.since, 1)

synthetic == {"tool_call", "thinking_block", "usage_stats"}

\* C13: in the parser's batch every synthetic event comes after the message
\* event that is its parent, and in a normal-mode batch no synthetic event is
\* rejected when its parent's row was stored before the batch or was inserted
\* by it
C13_ParentBeforeChildren ==
    call.op = "parsed" =>
        \A i \in 1..Len(call.out) :
            call.out[i].event_type \in synthetic =>
                /\ \E j \in 1..(i - 1) :
                      /\ call.out[j].event_id = call.out[i].parent_event_id
                      /\ call.out[j].event_type = "message"
                /\ (/\ ~call.force
                    /\ \/ hasEvent(call.pre, call.out[i].parent_event_id)
                       \/ \E j \in 1..(i - 1) :
                             /\ call.out[j].event_id = call.out[i].parent_event_id
                             /\ call.log[j] = "rowid")
                      => call.log[i] # "throw"

\* a normal-mode batch has inserted a message and its three synthetic children
C13_Witness ==
    /\ call.op = "parsed"
    /\ ~call.force
    /\ \E i \in 1..Len(call.out) :
          /\ call.out[i].event_id = "B"
          /\ call.log[i] = "rowid"
          /\ i + 3 <= Len(call.out)
          /\ \A k \in 1..3 :
                /\ call.out[i + k].parent_event_id = "B"
                /\ call.log[i + k] = "rowid"

\* the number of archive events the files produce
RECURSIVE events_in(_, _)
events_in(fls, idx) ==
    IF idx > Len(sessionFiles) THEN 0
    ELSE Len(parseEvents(fls[sessionFiles[idx]], 0, 1)) + events_in(fls, idx + 1)

RemsgFiles ==
    {[f1 |-> a, f2 |-> <<userRecord("C", "A", 1, 1, "c")>>] :
        a \in {<<userRecord("A", Null, 1, 1, "a"), userRecord("B", "A", 2, 2, "b")>>,
               <<userRecord("A", Null, 1, 0, "a")>>,
               <<userRecord("A", Null, 2, 2, "a"), userRecord("B", "A", 2, 2, "a")>>}}

InitRemsg ==
    /\ events = {}
    /\ thinking_blocks = {}
    /\ usage_stats = {}
    /\ foreign_keys = TRUE
    /\ messages = <<>>
    /\ messages_fts = {}
    /\ edits = <<>>
    /\ reactions = {}
    /\ tables = StoreTables \cup EventTables
    /\ sessions = {}
    /\ archive_state \in ScanCheckpoints
    /\ files \in RemsgFiles
    /\ clock \in 1..MaxClock
    /\ scan = noScan
    /\ \E force \in BOOLEAN :
          call = [op |-> "remsg", force |-> force, runs |-> 0, once |-> <<>>,
                  imported |-> 0]
    /\ forceUsed = FALSE

\* scanAndArchive({mode: 'messages', force}) from start to end, no file failing
RescanMessages ==
    /\ call.op = "remsg"
    /\ call.runs < 2
    /\ LET lastTimestamp == cutoff(archive_state, CHECKPOINT_KEY, call.force)
           out == scanMessagesLoop([messages |-> messages, imported |-> 0],
                                   files, 1, lastTimestamp, clock)
       IN  /\ messages' = out.messages
           /\ messages_fts' = messages_fts_insert(messages_fts, messages, out.messages)
           /\ call' = [call EXCEPT
                         !.runs = @ + 1,
                         !.imported = out.imported,
                         !.once = IF call.runs = 0 THEN out.messages ELSE @]
           /\ archive_state' = setCheckpoint(archive_state, CHECKPOINT_KEY,
                                             watermark(lastTimestamp, clock))
    /\ UNCHANGED <<sessions, tables, edits, reactions, events, thinking_blocks, usage_stats, foreign_keys,
                   files, clock, scan, forceUsed>>

NextRemsg ==
    \/ RescanMessages
    \/ Tick

SpecRemsg == InitRemsg /\ [][NextRemsg]_vars

\* C15: after the second of two messages scans of the same files in a row the
\* Message rows are those left by the first, and the second inserted nothing
C15_MessagesIngestIdempotent ==
    (call.op = "remsg" /\ call.runs = 2) =>
        /\ messages = call.once
        /\ call.imported = 0

\* the same when every message of the files carries its own timestamp
C15_TimestampedMessagesIngestIdempotent ==
    (/\ call.op = "remsg"
     /\ call.runs = 2
     /\ \A f \in DOMAIN files : \A i \in 1..Len(files[f]) : files[f][i].mts # 0) =>
        /\ messages = call.once
        /\ call.imported = 0


\* ------------------------------------------------ session export

\* SELECT * FROM events WHERE session_id = ?
sessionRows(d, sessionId) == {r \in d.events : r.session_id = sessionId}

\* ORDER BY timestamp ASC: the orders SQLite may return the rows in (rows of
\* one timestamp come in no stated order)
timestampOrders(rows) ==
    {s \in [1..Cardinality(rows) -> rows] :
        /\ \A i, j \in 1..Cardinality(rows) : i # j => s[i] # s[j]
        /\ \A i, j \in 1..Cardinality(rows) : i < j => s[i].timestamp <= s[j].timestamp}

\* the event types exportSessionAsJsonl skips
skippedTypes == {"tool_call", "thinking_block", "usage_stats"}

\* getSessionEvents as exportSessionAsJsonl reads it, less the rows the loop
\* skips (skipping keeps the order of the others)
getSessionEvents(d, sessionId) ==
    timestampOrders({r \in sessionRows(d, sessionId) : r.event_type \notin skippedTypes})

\* the line of one row: type, id, timestamp and parentId, then the fields of
\* content_json assigned over them at the top level. A message's content_json
\* is the message object, so the line has role, content and usage beside its
\* id and no message object, and the message's own timestamp (when it has
\* one) replaces the event's.
reconstructLine(evt) ==
    [type |-> IF evt.event_type = "tool_result" THEN "message" ELSE evt.event_type,
     id |-> evt.event_id,
     parentId |-> evt.parent_event_id,
     timestamp |-> IF evt.content_json.mts # 0 THEN evt.content_json.mts ELSE evt.timestamp,
     role |-> evt.content_json.role,
     content |-> evt.content_json.content,
     usage |-> evt.content_json.usage,
     mts |-> 0, text |-> evt.content_json.text,
     line |-> "json", nested |-> FALSE]

\* exportSessionAsJsonl, given the order the rows were read in
exportSessionAsJsonl(rows) == [i \in 1..Len(rows) |-> reconstructLine(rows[i])]

\* the records of a session file "f1": its session record, a user message, an
\* assistant message that fans out, a custom record, and a user message whose
\* message object has a timestamp of its own
ExportLines ==
    {sourceLine("json", "session", "f1", Null, 1, Null, <<>>, FALSE, FALSE),
     sourceLine("json", "message", "A", Null, 1, "user", <<>>, FALSE, TRUE),
     sourceLine("json", "message", "B", "A", 2, "assistant",
                <<[type |-> "toolCall", id |-> "T1", thinking |-> Null],
                  [type |-> "thinking", id |-> Null, thinking |-> "hm"]>>, TRUE, TRUE),
     sourceLine("json", "custom", "K", Null, 2, Null, <<>>, FALSE, FALSE),
     [sourceLine("json", "message", "C", Null, 1, "user", <<>>, FALSE, TRUE)
        EXCEPT !.mts = 3]}

InitExport ==
    /\ events = {}
    /\ thinking_blocks = {}
    /\ usage_stats = {}
    /\ foreign_keys = TRUE
    /\ messages = <<>>
    /\ messages_fts = {}
    /\ edits = <<>>
    /\ reactions = {}
    /\ tables = StoreTables \cup EventTables
    /\ sessions = {}
    /\ archive_state = [k \in {} |-> Null]
    /\ files \in {[f1 |-> c] : c \in SeqsUpTo(ExportLines, MaxLines)}
    /\ clock = 1
    /\ scan = noScan
    /\ \E force \in BOOLEAN : call = [op |-> "file", force |-> force]
    /\ forceUsed = FALSE

\* the session file is scanned into the Store
IngestSession ==
    /\ call.op = "file"
    /\ LET out == parseEvents(files["f1"], 0, 1)
           res == insertEventBatch(Db, out, SESSION_KEY, "f1", call.force)
       IN  setDb(IF out = <<>> THEN Db ELSE res.db)
    /\ call' = [op |-> "stored", force |-> call.force]
    /\ forceUsed' = call.force
    /\ UNCHANGED <<sessions, tables, msgTables, messages, archive_state, files, clock, scan>>

\* archive.exportSessionAsJsonl("f1")
ExportSession ==
    /\ call.op = "stored"
    /\ \E rows \in getSessionEvents(Db, "f1") :
          call' = [op |-> "exported", force |-> call.force,
                   lines |-> exportSessionAsJsonl(rows)]
    /\ UNCHANGED <<sessions, tables, msgTables, events, thinking_blocks, usage_stats, foreign_keys, messages,
                   archive_state, files, clock, scan, forceUsed>>

\* the export is parsed by the Event-log Parser and inserted into a fresh
\* Store, which takes the place of the exported one (call.source keeps the
\* rows that were exported from)
ReingestExport ==
    /\ call.op = "exported"
    /\ LET fresh == [events |-> {}, thinking_blocks |-> {}, usage_stats |-> {},
                     foreign_keys |-> TRUE]
           out == parseEvents(call.lines, 0, 1)
           res == insertEventBatch(fresh, out, SESSION_KEY, "f1", FALSE)
       IN  setDb(IF out = <<>> THEN fresh ELSE res.db)
    /\ call' = [op |-> "reingested", force |-> call.force, lines |-> call.lines,
                source |-> events]
    /\ UNCHANGED <<sessions, tables, msgTables, messages, archive_state, files, clock, scan, forceUsed>>

NextExport ==
    \/ IngestSession
    \/ ExportSession
    \/ ReingestExport

SpecExport == InitExport /\ [][NextExport]_vars

\* ------------------------------------ SpecHeader: a file and its header

\* the records of f1: those of ExportLines, and a session header whose id is
\* not the name of the file (a file copied or renamed, or one log of several
\* that a session writes)
HeaderLines ==
    ExportLines
    \cup {sourceLine("json", "session", "s0", Null, 1, Null, <<>>, FALSE, FALSE)}

InitHeader ==
    /\ events = {}
    /\ thinking_blocks = {}
    /\ usage_stats = {}
    /\ foreign_keys = TRUE
    /\ messages = <<>>
    /\ messages_fts = {}
    /\ edits = <<>>
    /\ reactions = {}
    /\ tables = StoreTables \cup EventTables
    /\ sessions = {}
    /\ archive_state = [k \in {} |-> Null]
    /\ files \in {[f1 |-> c] : c \in SeqsUpTo(HeaderLines, MaxLines)}
    /\ clock = 1
    /\ scan = noScan
    /\ \E force \in BOOLEAN : call = [op |-> "file", force |-> force]
    /\ forceUsed = FALSE

NextHeader ==
    \/ IngestSession
    \/ ExportSession

SpecHeader == InitHeader /\ [][NextHeader]_vars

\* C16: every line of exportSessionAsJsonl(S) carries the id and timestamp of
\* one non-synthetic Event of S, and parsing the export into a fresh Store
\* reproduces the Event rows of S, synthetic children included
C16_ExportRoundTrip ==
    call.op = "reingested" =>
        /\ {<<l.id, l.timestamp>> : l \in {call.lines[i] : i \in 1..Len(call.lines)}}
             = {<<r.event_id, r.timestamp>> :
                    r \in {x \in call.source : x.event_type \notin skippedTypes}}
        /\ events = call.source

\* C16, the part that holds: a session with no message events (session and
\* custom records only) is reproduced by the round trip
C16_ExportRoundTripWithoutMessages ==
    (call.op = "reingested"
        /\ \A r \in call.source : r.event_type \notin {"message", "tool_result"})
    => events = call.source


\* ------------------------------------------- SpecLife: a message's life

\* two messages of two senders, with a text or without one
LifeMessages ==
    {[message_id |-> "m1", sender_id |-> "u1", content_text |-> c, timestamp |-> 1] :
        c \in {Null, "hello"}}
    \cup {[message_id |-> "m2", sender_id |-> "u2", content_text |-> c, timestamp |-> 2] :
        c \in {Null, "hello"}}

LifeIds == {"m1", "m2"}

MsgStore == [messages |-> messages, messages_fts |-> messages_fts, edits |-> edits]

setMsgStore(st) ==
    /\ messages' = st.messages
    /\ messages_fts' = st.messages_fts
    /\ edits' = st.edits

InitLife ==
    /\ events = {}
    /\ thinking_blocks = {}
    /\ usage_stats = {}
    /\ foreign_keys = TRUE
    /\ messages = <<>>
    /\ messages_fts = {}
    /\ edits = <<>>
    /\ reactions = {}
    /\ tables = StoreTables \cup EventTables
    /\ sessions = {}
    /\ archive_state = [k \in {} |-> Null]
    /\ files = [f \in {} |-> <<>>]
    /\ clock = 1
    /\ scan = noScan
    /\ call = [op |-> "open"]
    /\ forceUsed = FALSE

\* what no call on the messages tables touches
lifeFrame == <<events, thinking_blocks, usage_stats, foreign_keys, archive_state,
               files, scan, forceUsed, tables, sessions>>

\* archive.insertMessage(m): what a scan does with each parsed message
InsertOne ==
    /\ Len(messages) < MaxInserts
    /\ \E m \in LifeMessages :
          LET out == insertMessage(messages, m, TRUE)
          IN  /\ messages' = out.messages
              /\ messages_fts' = messages_fts_insert(messages_fts, messages, out.messages)
              /\ call' = [op |-> "insertMessage", ret |-> out.ret]
    /\ UNCHANGED <<edits, reactions, clock, lifeFrame>>

\* archive.insertBatch(msgs) of two messages: what an import does with its
\* messages
InsertBatchCall ==
    /\ Len(messages) < MaxInserts
    /\ \E msgs \in {<<a, b>> : a, b \in LifeMessages} :
          LET out == insertBatch(messages, msgs, 1)
          IN  /\ messages' = out.messages
              /\ messages_fts' = messages_fts_insert(messages_fts, messages, out.messages)
              /\ call' = [op |-> "insertBatch", inserted |-> out.inserted,
                          skipped |-> out.skipped]
    /\ UNCHANGED <<edits, reactions, clock, lifeFrame>>

\* archive.updateMessage(id, new), editTimestamp = Date.now()
UpdateMessageCall ==
    /\ Len(edits) < MaxEdits
    /\ \E id \in LifeIds, new \in {"hi"} :
          LET out == updateMessage(MsgStore, id, new, clock)
          IN  /\ setMsgStore(out.st)
              /\ call' = [op |-> "updateMessage", id |-> id, new |-> new, t |-> clock,
                          ret |-> out.ret, pre |-> messages, preEdits |-> edits]
    /\ UNCHANGED <<reactions, clock, lifeFrame>>

\* archive.updateMessage(id, new) of a stored message, the process killed
\* between the INSERT INTO edits and the UPDATE messages
UpdateMessageKilled ==
    /\ Len(edits) < MaxEdits
    /\ \E id \in LifeIds, new \in {"hi"} :
          /\ rowOf(messages, id) # 0
          /\ setMsgStore(updateMessageKilled(MsgStore, id, new, clock))
          /\ call' = [op |-> "killed", id |-> id, new |-> new, t |-> clock]
    /\ UNCHANGED <<reactions, clock, lifeFrame>>

\* archive.softDeleteMessage(id), timestamp = Date.now()
SoftDeleteMessageCall ==
    /\ \E id \in LifeIds :
          /\ setMsgStore(softDeleteMessage(MsgStore, id, clock))
          /\ call' = [op |-> "softDeleteMessage", id |-> id, t |-> clock]
    /\ UNCHANGED <<reactions, clock, lifeFrame>>

\* archive.addReaction(id, emoji, user)
AddReactionCall ==
    /\ \E id \in {"m1"} :
          /\ reactions' = addReaction(messages, reactions, id, "+1", "u1", clock)
          /\ call' = [op |-> "addReaction", id |-> id]
    /\ UNCHANGED <<messages, messages_fts, edits, clock, lifeFrame>>

\* archive.removeReaction(id, emoji, user)
RemoveReactionCall ==
    /\ \E id \in {"m1"} :
          /\ reactions' = removeReaction(reactions, id, "+1", "u1", clock)
          /\ call' = [op |-> "removeReaction", id |-> id]
    /\ UNCHANGED <<messages, messages_fts, edits, clock, lifeFrame>>

\* time passes
LifeTick ==
    /\ clock < MaxLifeClock
    /\ clock' = clock + 1
    /\ call' = [op |-> "tick"]
    /\ UNCHANGED <<messages, msgTables, lifeFrame>>

NextLife ==
    \/ InsertOne
    \/ InsertBatchCall
    \/ UpdateMessageCall
    \/ SoftDeleteMessageCall
    \/ AddReactionCall
    \/ RemoveReactionCall
    \/ LifeTick

SpecLife == InitLife /\ [][NextLife]_vars

\* SpecReact: one user's reactions to a message come and go
Emojis == {"+1", "ok"}

ReactAdd ==
    /\ \E id \in {"m1"}, emoji \in Emojis :
          /\ reactions' = addReaction(messages, reactions, id, emoji, "u1", clock)
          /\ call' = [op |-> "addReaction", key |-> <<id, emoji, "u1">>, t |-> clock,
                      before |-> reactions, stored |-> rowOf(messages, id) # 0]
    /\ UNCHANGED <<messages, messages_fts, edits, clock, lifeFrame>>

ReactRemove ==
    /\ \E id \in {"m1"}, emoji \in Emojis :
          /\ reactions' = removeReaction(reactions, id, emoji, "u1", clock)
          /\ call' = [op |-> "removeReaction", key |-> <<id, emoji, "u1">>, t |-> clock,
                      before |-> reactions, stored |-> rowOf(messages, id) # 0]
    /\ UNCHANGED <<messages, messages_fts, edits, clock, lifeFrame>>

NextReact ==
    \/ InsertOne
    \/ ReactAdd
    \/ ReactRemove
    \/ LifeTick

SpecReact == InitLife /\ [][NextReact]_vars

\* ------------------------------------------- SpecOpen: a new database

\* a path with no database; one session file f1 of up to MaxLines records
InitOpen ==
    /\ events = {}
    /\ thinking_blocks = {}
    /\ usage_stats = {}
    /\ foreign_keys = FALSE
    /\ messages = <<>>
    /\ messages_fts = {}
    /\ edits = <<>>
    /\ reactions = {}
    /\ tables = {}
    /\ sessions = {}
    /\ archive_state = [k \in {} |-> Null]
    /\ files \in {[f1 |-> c, f2 |-> <<>>] : c \in SeqsUpTo(ExportLines, MaxLines)}
    /\ clock \in 1..MaxClock
    /\ scan = noScan
    /\ \E force \in BOOLEAN : call = [op |-> "closed", force |-> force]
    /\ forceUsed = FALSE

\* new MessageArchive(dbPath): the pragmas and initializeSchema
OpenStore ==
    /\ call.op = "closed"
    /\ tables' = tables \cup StoreTables
    /\ foreign_keys' = TRUE
    /\ call' = [call EXCEPT !.op = "open"]
    /\ UNCHANGED <<sessions, events, thinking_blocks, usage_stats, messages, msgTables,
                   archive_state, files, clock, scan, forceUsed>>

\* the tool archive-events-init run on the path: the events schema
EventsInit ==
    /\ call.op \in {"closed", "open"}
    /\ ~(EventTables \subseteq tables)
    /\ tables' = tables \cup EventTables
    /\ UNCHANGED <<sessions, events, thinking_blocks, usage_stats, foreign_keys, messages,
                   msgTables, archive_state, files, clock, scan, call, forceUsed>>

\* the first events scan: scanEvents from start to end
FirstEventsScan ==
    /\ call.op = "open"
    /\ LET lastTimestamp == cutoff(archive_state, EVENTS_CHECKPOINT_KEY, call.force)
           out == scanEventsOn(tables,
                               [db |-> Db, inserted |-> 0, skipped |-> 0, errors |-> 0],
                               files, 1, lastTimestamp, call.force)
       IN  /\ setDb(out.db)
           /\ call' = [op |-> "scanned", force |-> call.force,
                       inserted |-> out.inserted, errors |-> out.errors]
           /\ archive_state' = setCheckpoint(archive_state, EVENTS_CHECKPOINT_KEY,
                                             watermark(lastTimestamp, clock))
    /\ forceUsed' = call.force
    /\ UNCHANGED <<sessions, tables, messages, msgTables, files, clock, scan>>

NextOpen ==
    \/ OpenStore
    \/ EventsInit
    \/ FirstEventsScan

SpecOpen == InitOpen /\ [][NextOpen]_vars

\* ------------------------------------------- SpecBatch: batches of replies

\* three messages of different texts; each replies to nothing, to m1, or to
\* a message "zz" that is in no batch
ReplyMessages ==
    {[message_id |-> id, sender_id |-> "u1", content_text |-> id, timestamp |-> 1,
      reply_to_id |-> r] : id \in {"m1", "m2", "m3"}, r \in {Null, "m1", "zz"}}

\* archive.insertBatch(msgs)
InsertReplies ==
    /\ call.op \in {"open", "insertBatch"}
    /\ Len(messages) < MaxInserts
    /\ \E msgs \in SeqsUpTo(ReplyMessages, MaxBatch) :
          LET out == insertBatch(messages, msgs, 1)
          IN  /\ messages' = out.messages
              /\ messages_fts' = messages_fts_insert(messages_fts, messages, out.messages)
              /\ call' = [op |-> "insertBatch", msgs |-> msgs, pre |-> messages,
                          ret |-> out.ret, inserted |-> out.inserted,
                          skipped |-> out.skipped]
    /\ UNCHANGED <<edits, reactions, clock, lifeFrame>>

NextBatch ==
    \/ InsertReplies

SpecBatch == InitLife /\ [][NextBatch]_vars

\* ------------------------------------ SpecTelegram: a Telegram export, twice

\* TelegramExportParser.normalizeMessage: msg.date is a time in whole seconds,
\* msg.reply_to_message_id is 0 when the message replies to nothing
TelegramExportParser_normalizeMessage(msg) ==
    [message_id |-> "telegram_export_" \o ToString(msg.id),
     sender_id |-> msg.from_id,
     content_text |-> msg.text,
     reply_to_id |-> IF msg.reply_to_message_id # 0
                     THEN "telegram_export_" \o ToString(msg.reply_to_message_id)
                     ELSE Null,
     timestamp |-> msg.date * 1000]

\* TelegramExportParser.parseExport: data.messages.map(normalizeMessage)
TelegramExportParser_parseExport(export) == [i \in 1..Len(export) |-> TelegramExportParser_normalizeMessage(export[i])]

\* the messages of an export: text or media (no text), sent at second 1 or 2,
\* replying to nothing, to message 1, or to a message 9 the export lacks
TelegramMessages ==
    [id : 1..MaxBatch, from_id : {"user1"}, date : {1, 2}, text : {"hi", ""},
     reply_to_message_id : {0, 1, 9}]

\* exports of at most MaxBatch messages, each with its own id
TelegramExports ==
    {e \in SeqsUpTo(TelegramMessages, MaxBatch) :
        \A i, j \in 1..Len(e) : i # j => e[i].id # e[j].id}

InitTelegram ==
    /\ events = {}
    /\ thinking_blocks = {}
    /\ usage_stats = {}
    /\ foreign_keys = TRUE
    /\ messages = <<>>
    /\ messages_fts = {}
    /\ edits = <<>>
    /\ reactions = {}
    /\ tables = StoreTables \cup EventTables
    /\ sessions = {}
    /\ archive_state = [k \in {} |-> Null]
    /\ files \in {[f \in {"result.json"} |-> e] : e \in TelegramExports}
    /\ clock = 1
    /\ scan = noScan
    /\ call = [op |-> "open", n |-> 0]
    /\ forceUsed = FALSE

\* backfillTelegramExport(filePath, archive): the n-th import of the file; an
\* exception of insertBatch leaves before the checkpoint is written
BackfillTelegram ==
    /\ clock <= MaxClock
    /\ LET parsed == TelegramExportParser_parseExport(files["result.json"])
           out == insertBatch(messages, parsed, 1)
       IN  /\ messages' = out.messages
           /\ messages_fts' = messages_fts_insert(messages_fts, messages, out.messages)
           /\ archive_state' =
                 IF out.ret = "throw" THEN archive_state
                 ELSE setCheckpoint(archive_state, "backfill_telegram_" \o ToString(clock),
                                    [imported |-> out.inserted, skipped |-> out.skipped,
                                     timestamp |-> clock])
           /\ call' = [op |-> "backfillTelegram", n |-> call.n + 1, found |-> Len(parsed),
                       ret |-> out.ret, inserted |-> out.inserted, skipped |-> out.skipped]
    /\ clock' = clock + 1
    /\ UNCHANGED <<events, thinking_blocks, usage_stats, foreign_keys, edits, reactions,
                   sessions, tables, files, scan, forceUsed>>

NextTelegram ==
    \/ BackfillTelegram

SpecTelegram == InitTelegram /\ [][NextTelegram]_vars

\* --------------------------------------- SpecSessions: the sessions scan

SESSIONS_CHECKPOINT_KEY == "last_sessions_scan_timestamp"

\* the session files of the scan, in the order the scan takes them
SessionPaths(fls) ==
    <<"agents/main/sessions/s1.jsonl">>
    \o (IF "agents/main/sessions/s2.jsonl" \in DOMAIN fls
        THEN <<"agents/main/sessions/s2.jsonl">> ELSE <<>>)
    \o (IF "agents/work/sessions/s2.jsonl" \in DOMAIN fls
        THEN <<"agents/work/sessions/s2.jsonl">> ELSE <<>>)
    \o (IF "cron/runs/s2.jsonl" \in DOMAIN fls THEN <<"cron/runs/s2.jsonl">> ELSE <<>>)

\* path.basename(sessionFilePath, '.jsonl')
basename(path) == IF path = "agents/main/sessions/s1.jsonl" THEN "s1" ELSE "s2"

\* the records of a file that JSON.parse accepts
RECURSIVE jsonEvents(_, _)
jsonEvents(lines, i) ==
    IF i > Len(lines) THEN <<>>
    ELSE (IF lines[i].line = "json" THEN <<lines[i]>> ELSE <<>>) \o jsonEvents(lines, i + 1)

\* SessionDetector.classifySession
classifySession(path, sessionEvent, firstEvent) ==
    IF path = "cron/runs/s2.jsonl"
    THEN [type |-> "cron", session_key |-> "cron", parent_id |-> Null]
    ELSE IF path \in {"agents/main/sessions/s1.jsonl", "agents/main/sessions/s2.jsonl"}
    THEN IF ~falsy(firstEvent.parentId)
         THEN [type |-> "subagent", session_key |-> "agent:main:subagent:" \o basename(path),
               parent_id |-> firstEvent.parentId]
         ELSE IF sessionEvent # <<>> /\ ~falsy(sessionEvent[1].parentId)
         THEN [type |-> "subagent", session_key |-> "agent:main:subagent:" \o basename(path),
               parent_id |-> sessionEvent[1].parentId]
         ELSE [type |-> "main", session_key |-> "agent:main:main", parent_id |-> Null]
    ELSE [type |-> "isolated", session_key |-> "unknown", parent_id |-> Null]

\* SessionDetector.detectSession: "throw" when the file has no record; the
\* timestamps here are present, a NaN one is a string that is no date
detectSession(path, lines) ==
    LET evs == jsonEvents(lines, 1)
        sessionEvents == SelectSeq(evs, LAMBDA e : e.type = "session")
        sessionEvent == IF sessionEvents = <<>> THEN <<>>
                        ELSE <<sessionEvents[Len(sessionEvents)]>>
    IN  IF evs = <<>> THEN [ret |-> "throw"]
        ELSE LET c == classifySession(path, sessionEvent, evs[1])
             IN  [ret |-> "ok", id |-> basename(path), type |-> c.type,
                  session_key |-> c.session_key, parent_id |-> c.parent_id,
                  started_at |-> evs[1].timestamp,
                  ended_at |-> evs[Len(evs)].timestamp,
                  status |-> IF evs[Len(evs)].timestamp # NaN THEN "completed" ELSE "active",
                  message_count |-> Len(SelectSeq(evs, LAMBDA e : e.type = "message"))]

\* type.charAt(0).toUpperCase() + type.slice(1)
capitalized(type) ==
    CASE type = "main" -> "Main"
      [] type = "subagent" -> "Subagent"
      [] type = "cron" -> "Cron"
      [] OTHER -> "Isolated"

\* SessionSummarizer.generateFallback of a session with no label
generateFallback(sessionData, evs) ==
    LET messageCount == Len(SelectSeq(evs, LAMBDA e : e.event_type = "message"))
        duration == IF sessionData.started_at = NaN \/ sessionData.ended_at = NaN THEN "NaN"
                    ELSE ToString((sessionData.ended_at - sessionData.started_at + 500) \div 1000)
    IN  [title |-> capitalized(sessionData.type) \o " Session",
         summary |-> sessionData.type \o " session with " \o ToString(messageCount)
                     \o " messages"
                     \o (IF evs # <<>> THEN ". Duration: " \o duration \o "s" ELSE "")]

\* SessionSummarizer.summarize: the static text of a main session, else what
\* the model answered ("llm"), the fallback (no key, or the request failed),
\* or an exception ("throw")
summarize(sessionData, evs, outcome) ==
    IF sessionData.type = "main"
    THEN [ret |-> "ok", title |-> "Main Session", summary |-> "main"]
    ELSE IF outcome = "llm"
    THEN [ret |-> "ok", title |-> "Title", summary |-> "Summary."]
    ELSE IF outcome = "fallback"
    THEN [ret |-> "ok"] @@ generateFallback(sessionData, evs)
    ELSE [ret |-> "throw"]

\* scanSessions, the try/catch around summarize
summaryOf(sessionData, evs, outcome) ==
    LET out == summarize(sessionData, evs, outcome)
    IN  IF out.ret = "throw" THEN generateFallback(sessionData, evs)
        ELSE [title |-> out.title, summary |-> out.summary]

\* the row upsertSession writes for sessionData
sessionRow(sessionData) ==
    [id |-> sessionData.id, session_key |-> sessionData.session_key,
     type |-> sessionData.type, parent_id |-> sessionData.parent_id,
     started_at |-> sessionData.started_at,
     status |-> IF falsy(sessionData.status) THEN "active" ELSE sessionData.status,
     title |-> sessionData.title,
     summary |-> sessionData.summary, message_count |-> sessionData.message_count]

\* the constraints of the sessions table the row can violate: started_at,
\* title and summary NOT NULL (a NaN is stored as NULL), parent_id a session
sessionConstraintFails(rows, fk, row) ==
    \/ row.started_at = NaN
    \/ row.title = Null
    \/ row.summary = Null
    \/ /\ fk
       /\ row.parent_id # Null
       /\ row.parent_id # row.id
       /\ ~\E r \in rows : r.id = row.parent_id

\* MessageArchive.upsertSession: true when inserted, false when updated
upsertSession(rows, fk, sessionData) ==
    LET row == sessionRow(sessionData)
        existing == {r \in rows : r.id = sessionData.id}
    IN  IF sessionConstraintFails(rows, fk, row) THEN [sessions |-> rows, ret |-> "throw"]
        ELSE [sessions |-> (rows \ existing) \cup {row}, ret |-> IF existing = {} THEN "inserted" ELSE "updated"]

\* completeSession with no test of the status
completeSessionAnyStatus(rows, sessionId) ==
    {IF r.id = sessionId THEN [r EXCEPT !.status = "completed"] ELSE r : r \in rows}

\* MessageArchive.completeSession
completeSession(rows, sessionId) ==
    {IF r.id = sessionId /\ r.status = "active" THEN [r EXCEPT !.status = "completed"] ELSE r :
        r \in rows}

\* MessageArchive.failSession
failSession(rows, sessionId) ==
    {IF r.id = sessionId /\ r.status = "active" THEN [r EXCEPT !.status = "failed"] ELSE r :
        r \in rows}

\* the session records of the scan: headers (one naming s1 as its parent),
\* messages (one with a parent record, one dated by no date), a broken line
SessionLines ==
    {sourceLine("json", "session", "s", Null, 1, Null, <<>>, FALSE, FALSE),
     sourceLine("json", "session", "s", "s1", 1, Null, <<>>, FALSE, FALSE),
     sourceLine("json", "message", "A", Null, 1, "user", <<>>, FALSE, TRUE),
     sourceLine("json", "message", "B", "A", 2, "assistant", <<>>, FALSE, TRUE),
     sourceLine("json", "message", "C", Null, NaN, "user", <<>>, FALSE, TRUE),
     sourceLine("garbage", "message", "G", Null, 1, Null, <<>>, FALSE, FALSE)}

SummarizerOutcomes == {"llm", "fallback", "throw"}

idleSessions == [pc |-> "idle", force |-> FALSE, idx |-> 1]

InitSessions ==
    /\ events = {}
    /\ thinking_blocks = {}
    /\ usage_stats = {}
    /\ foreign_keys = TRUE
    /\ messages = <<>>
    /\ messages_fts = {}
    /\ edits = <<>>
    /\ reactions = {}
    /\ tables = StoreTables \cup EventTables
    /\ sessions = {}
    /\ archive_state = [k \in {} |-> Null]
    /\ \E p2 \in {"agents/main/sessions/s2.jsonl", "agents/work/sessions/s2.jsonl",
                   "cron/runs/s2.jsonl"} :
          files \in {[f \in {"agents/main/sessions/s1.jsonl", p2} |->
                        IF f = p2 THEN c2 ELSE c1] :
                     c1 \in SeqsUpTo(SessionLines, 1), c2 \in SeqsUpTo(SessionLines, MaxLines)}
    /\ clock = 1
    /\ scan = idleSessions
    /\ call = [op |-> "open"]
    /\ forceUsed = FALSE

sessionsFrame == <<events, thinking_blocks, usage_stats, foreign_keys, messages, msgTables,
                   tables, files, forceUsed>>

\* skipSession with the test left out: every file is summarized again
skipSessionNever(existing, force) == FALSE

\* scanSessions: if (existing && !force) the file is skipped
skipSession(existing, force) == existing /\ ~force

\* scanSessions is entered
StartSessionsScan ==
    /\ scan.pc = "idle"
    /\ clock < MaxClock
    /\ \E force \in BOOLEAN : scan' = [pc |-> "files", force |-> force, idx |-> 1]
    /\ call' = [op |-> "scanSessions"]
    /\ UNCHANGED <<sessions, archive_state, clock, sessionsFrame>>

\* one turn of the loop of scanSessions, the summarizer doing as `outcome`
ScanSessionFile ==
    /\ scan.pc = "files"
    /\ scan.idx <= Len(SessionPaths(files))
    /\ \E outcome \in SummarizerOutcomes :
          LET path == SessionPaths(files)[scan.idx]
              sessionData == detectSession(path, files[path])
              existing == sessionData.ret = "ok" /\ \E r \in sessions : r.id = sessionData.id
              evs == parseEvents(files[path], 0, 1)
              summary == summaryOf(sessionData, evs, outcome)
              out == upsertSession(sessions, foreign_keys,
                                   sessionData @@ [title |-> summary.title,
                                                   summary |-> summary.summary])
              skip == sessionData.ret = "throw" \/ skipSession(existing, scan.force)
          IN  /\ sessions' = IF skip THEN sessions ELSE out.sessions
              /\ call' = [op |-> "sessionFile", id |-> basename(path),
                          detected |-> sessionData.ret = "ok",
                          parent_id |-> IF sessionData.ret = "ok" THEN sessionData.parent_id
                                        ELSE Null,
                          started_at |-> IF sessionData.ret = "ok" THEN sessionData.started_at
                                         ELSE 0,
                          outcome |-> IF skip \/ sessionData.type = "main" THEN "none"
                                      ELSE outcome,
                          fallback |-> IF sessionData.ret = "ok"
                                       THEN generateFallback(sessionData, evs)
                                       ELSE [title |-> Null, summary |-> Null],
                          result |-> IF sessionData.ret = "throw" THEN "error"
                                     ELSE IF skipSession(existing, scan.force) THEN "skipped"
                                     ELSE IF out.ret = "throw" THEN "error"
                                     ELSE out.ret]
    /\ scan' = [scan EXCEPT !.idx = scan.idx + 1]
    /\ UNCHANGED <<archive_state, clock, sessionsFrame>>

\* the files are done: the checkpoint
ScanSessionsEnd ==
    /\ scan.pc = "files"
    /\ scan.idx > Len(SessionPaths(files))
    /\ archive_state' = setCheckpoint(archive_state, SESSIONS_CHECKPOINT_KEY, clock)
    /\ clock' = clock + 1
    /\ scan' = idleSessions
    /\ call' = [op |-> "scanned"]
    /\ UNCHANGED <<sessions, sessionsFrame>>

NextSessions ==
    \/ StartSessionsScan
    \/ ScanSessionFile
    \/ ScanSessionsEnd

SpecSessions == InitSessions /\ [][NextSessions]_vars

\* ------------------------------------------ SpecFind: the files of a scan

\* a path below the scan root: its directories, and its file name cut at the
\* dots that matter
sessionPath(dirs, name) == [dirs |-> dirs, name |-> name]

\* entry.name.startsWith('.') of a directory
startsWithDot(dir) == dir \in {".git", ".trash"}

\* entry.name.endsWith('.jsonl')
endsWithJsonl(name) == name[Len(name)] = ".jsonl"

\* fullPath.includes('/sessions/')
includesSessions(p) == \E i \in 1..Len(p.dirs) : p.dirs[i] = "sessions"

\* findSessionFiles: walkDir descends into every directory whose name neither
\* starts with a dot nor is node_modules, and takes the files that end in
\* .jsonl and lie below a directory named sessions
findSessionFiles(tree) ==
    {p \in tree :
        /\ \A i \in 1..Len(p.dirs) :
              ~startsWithDot(p.dirs[i]) /\ p.dirs[i] # "node_modules"
        /\ endsWithJsonl(p.name)
        /\ includesSessions(p)}

\* the files a state directory may hold
StateFiles ==
    {sessionPath(<<"agents", "main", "sessions">>, <<"s1", ".jsonl">>),
     sessionPath(<<"agents", "main", "sessions">>, <<"s1", ".jsonl", ".lock">>),
     sessionPath(<<"agents", "main", "sessions">>, <<"s2", ".jsonl", ".deleted.", "1">>),
     sessionPath(<<"agents", "main", "sessions">>, <<"s3", ".deleted.", "1", ".jsonl">>),
     sessionPath(<<"agents", "main", "subagent", "sessions">>, <<"s4", ".jsonl">>),
     sessionPath(<<"agents", "main", "sessions", ".trash">>, <<"s5", ".jsonl">>),
     sessionPath(<<"agents", "main">>, <<"notes", ".jsonl">>),
     sessionPath(<<"cron", "runs">>, <<"r1", ".jsonl">>)}

InitFind ==
    /\ events = {}
    /\ thinking_blocks = {}
    /\ usage_stats = {}
    /\ foreign_keys = TRUE
    /\ messages = <<>>
    /\ messages_fts = {}
    /\ edits = <<>>
    /\ reactions = {}
    /\ tables = StoreTables \cup EventTables
    /\ sessions = {}
    /\ archive_state = [k \in {} |-> Null]
    /\ \E tree \in SUBSET StateFiles : files = [p \in tree |-> <<>>]
    /\ clock = 1
    /\ scan = noScan
    /\ call = [op |-> "open"]
    /\ forceUsed = FALSE

\* scanAndArchive: the session files of the scan
FindSessionFiles ==
    /\ call.op = "open"
    /\ call' = [op |-> "findSessionFiles", sessionFiles |-> findSessionFiles(DOMAIN files)]
    /\ UNCHANGED <<events, thinking_blocks, usage_stats, foreign_keys, messages, msgTables,
                   sessions, tables, archive_state, files, clock, scan, forceUsed>>

NextFind ==
    \/ FindSessionFiles

SpecFind == InitFind /\ [][NextFind]_vars

\* ------------------------------------------ SpecWhatsApp: a chat export

\* WhatsAppExportParser.parseLine: a line "M/D/YY, H:MM[:SS] [AM|PM] - Name: text"
\* (dash), a line "[D/M/YY, H:MM:SS] Name: text" (bracket), else no match
parseLine(line) ==
    IF line.kind = "dash" \/ (line.kind = "bracket" /\ line.seconds /\ line.meridiem = "")
    THEN <<[date |-> line.date, hour |-> line.hour, minute |-> line.minute,
            meridiem |-> line.meridiem, sender |-> line.sender, text |-> line.text]>>
    ELSE <<>>

\* new Date(`${date} ${time}`).getTime(): the first number of the date is
\* read as the month; minutes of the year 2023, NaN when there is no such day
dateTime(parsed) ==
    LET month == parsed.date[1]
        day == parsed.date[2]
        hour == IF parsed.meridiem = "PM" THEN (parsed.hour % 12) + 12
                ELSE IF parsed.meridiem = "AM" THEN parsed.hour % 12
                ELSE parsed.hour
    IN  IF month > 12 \/ day > 31 \/ (parsed.meridiem # "" /\ parsed.hour > 12)
        THEN NaN
        ELSE ((month * 31 + day) * 24 + hour) * 60 + parsed.minute

\* WhatsAppExportParser.normalizeMessage
WhatsAppExportParser_normalizeMessage(parsed) ==
    LET timestamp == dateTime(parsed)
    IN  [message_id |-> "whatsapp_export_"
                        \o (IF timestamp = NaN THEN "NaN" ELSE ToString(timestamp))
                        \o "_" \o parsed.sender,
         sender_id |-> Null,
         sender_name |-> parsed.sender,
         channel |-> "whatsapp",
         content_text |-> parsed.text,
         timestamp |-> timestamp]

\* WhatsAppExportParser.parseExport from line i on: a line that matches
\* starts a message, any other line is added to the message before it
RECURSIVE WhatsAppExportParser_parseExport(_, _, _)
WhatsAppExportParser_parseExport(lines, i, currentMessage) ==
    LET flush == IF currentMessage = <<>> THEN <<>>
                 ELSE <<WhatsAppExportParser_normalizeMessage(currentMessage[1])>>
    IN  IF i > Len(lines) THEN flush
        ELSE IF parseLine(lines[i]) # <<>>
        THEN flush \o WhatsAppExportParser_parseExport(lines, i + 1, parseLine(lines[i]))
        ELSE IF currentMessage # <<>>
        THEN WhatsAppExportParser_parseExport(
                 lines, i + 1,
                 <<[currentMessage[1] EXCEPT !.text = @ \o "\n" \o lines[i].text]>>)
        ELSE WhatsAppExportParser_parseExport(lines, i + 1, currentMessage)

\* the lines of a chat export: 12/31/23 or 31/12/23, at 10:30 PM or 22:31:00,
\* by Alice or Bob, in either format, and a line that continues a message
WhatsAppLines ==
    {[kind |-> k, date |-> d, hour |-> t.hour, minute |-> t.minute, seconds |-> t.seconds,
      meridiem |-> t.meridiem, sender |-> who, text |-> "Hi"] :
        k \in {"dash", "bracket"}, d \in {<<12, 31>>, <<31, 12>>},
        t \in {[hour |-> 10, minute |-> 30, seconds |-> FALSE, meridiem |-> "PM"],
               [hour |-> 22, minute |-> 31, seconds |-> TRUE, meridiem |-> ""]},
        who \in {"Alice", "Bob"}}
    \cup {[kind |-> "plain", date |-> <<1, 1>>, hour |-> 0, minute |-> 0, seconds |-> FALSE,
           meridiem |-> "", sender |-> "", text |-> "more"]}

InitWhatsApp ==
    /\ events = {}
    /\ thinking_blocks = {}
    /\ usage_stats = {}
    /\ foreign_keys = TRUE
    /\ messages = <<>>
    /\ messages_fts = {}
    /\ edits = <<>>
    /\ reactions = {}
    /\ tables = StoreTables \cup EventTables
    /\ sessions = {}
    /\ archive_state = [k \in {} |-> Null]
    /\ files \in {[f \in {"chat.txt"} |-> e] : e \in SeqsUpTo(WhatsAppLines, MaxBatch)}
    /\ clock = 1
    /\ scan = noScan
    /\ call = [op |-> "open", n |-> 0]
    /\ forceUsed = FALSE

\* backfillWhatsAppExport(filePath, archive), the n-th import of the file
BackfillWhatsApp ==
    /\ clock <= MaxClock
    /\ LET parsed == WhatsAppExportParser_parseExport(files["chat.txt"], 1, <<>>)
           out == insertBatch(messages, parsed, 1)
       IN  /\ messages' = out.messages
           /\ messages_fts' = messages_fts_insert(messages_fts, messages, out.messages)
           /\ archive_state' =
                 IF out.ret = "throw" THEN archive_state
                 ELSE setCheckpoint(archive_state, "backfill_whatsapp_" \o ToString(clock),
                                    [imported |-> out.inserted, skipped |-> out.skipped,
                                     timestamp |-> clock])
           /\ call' = [op |-> "backfillWhatsApp", n |-> call.n + 1, parsed |-> parsed,
                       ret |-> out.ret, inserted |-> out.inserted, skipped |-> out.skipped]
    /\ clock' = clock + 1
    /\ UNCHANGED <<events, thinking_blocks, usage_stats, foreign_keys, edits, reactions,
                   sessions, tables, files, scan, forceUsed>>

NextWhatsApp ==
    \/ BackfillWhatsApp

SpecWhatsApp == InitWhatsApp /\ [][NextWhatsApp]_vars

\* ------------------------- SpecAppend: a writer appends while scans run

\* the ids of the records the writer appends, in order
AppendIds == <<"A", "B">>

\* how many records the writer has appended
appended == Len(files.f1) + Len(files.f2)

InitAppend ==
    /\ events = {}
    /\ thinking_blocks = {}
    /\ usage_stats = {}
    /\ foreign_keys = TRUE
    /\ messages = <<>>
    /\ messages_fts = {}
    /\ edits = <<>>
    /\ reactions = {}
    /\ tables = StoreTables \cup EventTables
    /\ sessions = {}
    /\ archive_state = [k \in {} |-> 0]
    /\ files = [f1 |-> <<>>, f2 |-> <<>>]
    /\ clock = 1
    /\ scan = noScan
    /\ call = Idle
    /\ forceUsed = FALSE

\* the writer appends one record, timestamped with the wall clock, to a
\* session file
AppendRecord ==
    /\ appended < Len(AppendIds)
    /\ \E f \in {"f1", "f2"} :
          files' = [files EXCEPT
                      ![f] = Append(@, userRecord(AppendIds[appended + 1], Null, clock, clock, "a"))]
    /\ UNCHANGED <<sessions, tables, msgTables, events, thinking_blocks, usage_stats, foreign_keys,
                   messages, archive_state, clock, scan, call, forceUsed>>

\* scanAndArchive({mode: 'events'}): a periodic scan, not forced
StartEventsScan ==
    /\ scan.pc = "idle"
    /\ scan' = [scan EXCEPT
                  !.pc = "events", !.mode = "events", !.force = FALSE,
                  !.lastTimestamp = cutoff(archive_state, EVENTS_CHECKPOINT_KEY, FALSE),
                  !.eidx = 1, !.pre = archive_state, !.eBefore = events, !.eAll = events]
    /\ foreign_keys' = TRUE
    /\ UNCHANGED <<sessions, tables, msgTables, events, thinking_blocks, usage_stats, messages,
                   archive_state, files, clock, call, forceUsed>>

\* the steps of a scan
ScanStep ==
    \/ StartEventsScan
    \/ ScanEventsFile
    \/ ScanEventsEnd

NextAppend ==
    \/ Tick
    \/ AppendRecord
    \/ StartEventsScan
    \/ ScanEventsFile
    \/ ScanEventsEnd

\* the scans are periodic: a scan that can take a step takes it
SpecAppend == InitAppend /\ [][NextAppend]_vars /\ WF_vars(ScanStep)

\* ------------------------- SpecFail: a file fails in a scan, then is well

\* two session files, one record each
FailFiles ==
    {[f1 |-> <<userRecord("A", Null, t, t, "a")>>, f2 |-> <<userRecord("C", Null, 1, 1, "c")>>] :
        t \in 1..2}

\* scan.failed: the files whose processing has thrown in some scan
InitFail ==
    /\ events = {}
    /\ thinking_blocks = {}
    /\ usage_stats = {}
    /\ foreign_keys = TRUE
    /\ messages = <<>>
    /\ messages_fts = {}
    /\ edits = <<>>
    /\ reactions = {}
    /\ tables = StoreTables \cup EventTables
    /\ sessions = {}
    /\ archive_state = [k \in {} |-> 0]
    /\ files \in FailFiles
    /\ clock = 1
    /\ scan = [k \in DOMAIN noScan \cup {"failed"} |-> IF k = "failed" THEN {} ELSE noScan[k]]
    /\ call = Idle
    /\ forceUsed = FALSE

\* scanEvents, one file whose processing throws (the file cannot be read for
\* now): the catch of the loop counts an error and goes on to the next file.
\* A file fails in one scan at most, after which it can be processed
ScanEventsFileUnreadable ==
    /\ scan.pc = "events"
    /\ ~loopDone(scan.eidx)
    /\ sessionFiles[scan.eidx] \notin scan.failed
    /\ scan' = [scan EXCEPT !.eidx = @ + 1, !.failed = @ \cup {sessionFiles[scan.eidx]}]
    /\ UNCHANGED <<sessions, tables, msgTables, events, thinking_blocks, usage_stats, foreign_keys,
                   messages, archive_state, files, clock, call, forceUsed>>

NextFail ==
    \/ Tick
    \/ StartEventsScan
    \/ ScanEventsFile
    \/ ScanEventsFileUnreadable
    \/ ScanEventsEnd

\* the scans are periodic, and a file that can be processed is processed
SpecFail == InitFail /\ [][NextFail]_vars /\ WF_vars(ScanStep)

\* ----------------------- SpecKeys: the session key each scan gives a file

\* filePath.split(path.sep) of a session file below the state directory
\* ~/.openclaw
splitPath(path) ==
    IF path = "agents/main/sessions/s1.jsonl"
    THEN <<"", "home", "user", ".openclaw", "agents", "main", "sessions", "s1.jsonl">>
    ELSE IF path = "agents/main/sessions/s2.jsonl"
    THEN <<"", "home", "user", ".openclaw", "agents", "main", "sessions", "s2.jsonl">>
    ELSE IF path = "agents/work/sessions/s2.jsonl"
    THEN <<"", "home", "user", ".openclaw", "agents", "work", "sessions", "s2.jsonl">>
    ELSE <<"", "home", "user", ".openclaw", "cron", "runs", "s2.jsonl">>

\* pathParts.findIndex(p => p === name), from 1; 0 when there is none
findIndex(pathParts, name) ==
    IF \E i \in 1..Len(pathParts) : pathParts[i] = name
    THEN CHOOSE i \in 1..Len(pathParts) :
            /\ pathParts[i] = name
            /\ \A j \in 1..(i - 1) : pathParts[j] # name
    ELSE 0

\* sessionPath.join(':')
RECURSIVE join(_)
join(segments) ==
    IF Len(segments) = 1 THEN segments[1]
    ELSE segments[1] \o ":" \o join(Tail(segments))

\* SessionParser.extractSessionKey: the first three parts of a basename cut at
\* its underscores (the basenames here are ids, which have none), else the
\* directories between .openclaw and sessions
extractSessionKey(path) ==
    LET parts == <<basename(path)>>
        pathParts == splitPath(path)
        sessionsIndex == findIndex(pathParts, "sessions")
        openclawIndex == findIndex(pathParts, ".openclaw")
    IN  IF Len(parts) >= 3 THEN parts[1] \o ":" \o parts[2] \o ":" \o parts[3]
        ELSE IF /\ sessionsIndex > 1
                /\ openclawIndex # 0
                /\ openclawIndex < sessionsIndex
                /\ sessionsIndex - openclawIndex > 1
        THEN join(SubSeq(pathParts, openclawIndex + 1, sessionsIndex - 1))
        ELSE "unknown:session"

\* what a session file may hold: a message, with a header before it or not,
\* the header or the message naming a parent or not
KeyLines ==
    {<<sourceLine("json", "message", "A", Null, 1, "user", <<>>, FALSE, TRUE)>>,
     <<sourceLine("json", "message", "B", "A", 1, "user", <<>>, FALSE, TRUE)>>,
     <<sourceLine("json", "session", "s", Null, 1, Null, <<>>, FALSE, FALSE),
       sourceLine("json", "message", "A", Null, 1, "user", <<>>, FALSE, TRUE)>>,
     <<sourceLine("json", "session", "s", "s1", 1, Null, <<>>, FALSE, FALSE),
       sourceLine("json", "message", "A", Null, 1, "user", <<>>, FALSE, TRUE)>>}

\* one session file; call holds the session_key each scan stores on the rows
\* of that file, Null before the scan has run
InitKeys ==
    /\ events = {}
    /\ thinking_blocks = {}
    /\ usage_stats = {}
    /\ foreign_keys = TRUE
    /\ messages = <<>>
    /\ messages_fts = {}
    /\ edits = <<>>
    /\ reactions = {}
    /\ tables = StoreTables \cup EventTables
    /\ sessions = {}
    /\ archive_state = [k \in {} |-> Null]
    /\ \E p \in {"agents/main/sessions/s1.jsonl", "agents/main/sessions/s2.jsonl",
                  "agents/work/sessions/s2.jsonl", "cron/runs/s2.jsonl"} :
          /\ files \in {[f \in {p} |-> c] : c \in KeyLines}
          /\ call = [op |-> "keys", path |-> p, messages |-> Null, events |-> Null,
                     sessions |-> Null]
    /\ clock = 1
    /\ scan = idleSessions
    /\ forceUsed = FALSE

keysFrame == <<events, thinking_blocks, usage_stats, foreign_keys, messages, msgTables,
               tables, sessions, archive_state, files, clock, scan, forceUsed>>

\* the messages scan: new SessionParser(sessionFile) sets sessionKey, which
\* normalizeMessage puts on every message
MessagesScanKey ==
    /\ call.messages = Null
    /\ call' = [call EXCEPT !.messages = extractSessionKey(call.path)]
    /\ UNCHANGED keysFrame

\* the events scan: insertEventBatch(events, {sessionKey: 'agent:main:main'})
EventsScanKey ==
    /\ call.events = Null
    /\ call' = [call EXCEPT !.events = SESSION_KEY]
    /\ UNCHANGED keysFrame

\* the sessions scan: upsertSession stores the session_key of
\* detectSession(sessionFile)
SessionsScanKey ==
    /\ call.sessions = Null
    /\ call' = [call EXCEPT
                  !.sessions = detectSession(call.path, files[call.path]).session_key]
    /\ UNCHANGED keysFrame

NextKeys ==
    \/ MessagesScanKey
    \/ EventsScanKey
    \/ SessionsScanKey

SpecKeys == InitKeys /\ [][NextKeys]_vars

\* ------------------------ SpecImports: exports of several conversations

\* a first line of a chat export by Alice, and what may follow it: a line by
\* Alice or Bob in the same minute or in the next
WhatsAppChats ==
    {<<[kind |-> "dash", date |-> <<12, 31>>, hour |-> 10, minute |-> 30, seconds |-> FALSE,
        meridiem |-> "PM", sender |-> "Alice", text |-> "Hi"],
       [kind |-> "dash", date |-> <<12, 31>>, hour |-> 10, minute |-> m, seconds |-> FALSE,
        meridiem |-> "PM", sender |-> who, text |-> "Yo"]>> :
        m \in {30, 31}, who \in {"Alice", "Bob"}}

\* the export of one Telegram conversation: one message, the first or the
\* second of the conversation
TelegramChats(from_id) ==
    {<<[id |-> id, from_id |-> from_id, date |-> 1, text |-> text, reply_to_message_id |-> 0]>> :
        id \in 1..2, text \in {"hi", "yo"}}

ImportFiles == {"chat1/result.json", "chat2/result.json", "chat.txt"}

\* the messages the backfill of file f hands to insertBatch
parseImport(f) ==
    IF f = "chat.txt" THEN WhatsAppExportParser_parseExport(files[f], 1, <<>>)
    ELSE TelegramExportParser_parseExport(files[f])

\* the exports of two Telegram conversations and of one WhatsApp chat; call
\* holds, for each file imported, how many messages its import skipped
InitImports ==
    /\ events = {}
    /\ thinking_blocks = {}
    /\ usage_stats = {}
    /\ foreign_keys = TRUE
    /\ messages = <<>>
    /\ messages_fts = {}
    /\ edits = <<>>
    /\ reactions = {}
    /\ tables = StoreTables \cup EventTables
    /\ sessions = {}
    /\ archive_state = [k \in {} |-> Null]
    /\ files \in {[f \in ImportFiles |->
                     IF f = "chat1/result.json" THEN e1
                     ELSE IF f = "chat2/result.json" THEN e2 ELSE w] :
                  e1 \in TelegramChats("user1"), e2 \in TelegramChats("user2"),
                  w \in WhatsAppChats}
    /\ clock = 1
    /\ scan = noScan
    /\ call = [op |-> "imports", skipped |-> [f \in {} |-> 0]]
    /\ forceUsed = FALSE

\* backfillTelegramExport / backfillWhatsAppExport of a file not imported yet
ImportFile ==
    /\ \E f \in ImportFiles \ DOMAIN call.skipped :
          LET out == insertBatch(messages, parseImport(f), 1)
          IN  /\ out.ret = "ok"
              /\ messages' = out.messages
              /\ messages_fts' = messages_fts_insert(messages_fts, messages, out.messages)
              /\ call' = [call EXCEPT
                            !.skipped = [g \in DOMAIN @ \cup {f} |->
                                            IF g = f THEN out.skipped ELSE @[g]]]
    /\ UNCHANGED <<events, thinking_blocks, usage_stats, foreign_keys, edits, reactions,
                   sessions, tables, archive_state, files, clock, scan, forceUsed>>

NextImports ==
    \/ ImportFile

SpecImports == InitImports /\ [][NextImports]_vars

\* ------------------- SpecResurrect: a scan, a soft delete, a scan again

\* archive.softDeleteMessage(id) of a message a scan has stored
SoftDeleteScanned ==
    /\ call.op = "remsg"
    /\ \E i \in 1..Len(messages) :
          setMsgStore(softDeleteMessage(MsgStore, messages[i].message_id, clock))
    /\ UNCHANGED <<sessions, tables, reactions, events, thinking_blocks, usage_stats,
                   foreign_keys, archive_state, files, clock, scan, call, forceUsed>>

NextResurrect ==
    \/ RescanMessages
    \/ SoftDeleteScanned
    \/ Tick

SpecResurrect == InitRemsg /\ [][NextResurrect]_vars

\* ------------------------------------ SpecStatus: the status of a session

\* the session ids of the callers
SessionIds == {"s1", "s2", "s3"}

\* sessions as a caller of upsertSession describes them
SessionData ==
    {[id |-> id, session_key |-> "unknown", type |-> "isolated", parent_id |-> Null,
      started_at |-> 1, status |-> st, title |-> "Title", summary |-> "Summary.",
      message_count |-> 0] :
        id \in SessionIds, st \in {Null, "active", "completed", "failed"}}

\* archive.upsertSession(sessionData)
UpsertSessionCall ==
    /\ \E sessionData \in SessionData :
          LET out == upsertSession(sessions, foreign_keys, sessionData)
          IN  /\ sessions' = out.sessions
              /\ call' = [op |-> "upsertSession", id |-> sessionData.id, ret |-> out.ret]
    /\ UNCHANGED <<archive_state, clock, scan, sessionsFrame>>

\* archive.completeSession(sessionId)
CompleteSessionCall ==
    /\ \E sessionId \in SessionIds :
          /\ sessions' = completeSession(sessions, sessionId)
          /\ call' = [op |-> "completeSession", id |-> sessionId, ret |-> "ok"]
    /\ UNCHANGED <<archive_state, clock, scan, sessionsFrame>>

\* archive.failSession(sessionId)
FailSessionCall ==
    /\ \E sessionId \in SessionIds :
          /\ sessions' = failSession(sessions, sessionId)
          /\ call' = [op |-> "failSession", id |-> sessionId, ret |-> "ok"]
    /\ UNCHANGED <<archive_state, clock, scan, sessionsFrame>>

NextStatus ==
    \/ UpsertSessionCall
    \/ CompleteSessionCall
    \/ FailSessionCall

SpecStatus == InitLife /\ [][NextStatus]_vars

\* SpecKill: messages are inserted and edited, and the process may die inside
\* updateMessage
NextKill ==
    \/ InsertOne
    \/ UpdateMessageCall
    \/ UpdateMessageKilled
    \/ LifeTick

SpecKill == InitLife /\ [][NextKill]_vars


\* ------------------------------------------- SpecRead: the read paths

\* the filters of a queryMessages call
ReadFilters ==
    [senderId : {Null, "u1"}, startTime : {0, 2}, endTime : {0, 1},
     contentMatch : {Null, "hello"}, limit : {1, DEFAULT_LIMIT},
     includeDeleted : BOOLEAN]

InitRead ==
    /\ events = {}
    /\ thinking_blocks = {}
    /\ usage_stats = {}
    /\ foreign_keys = TRUE
    /\ messages = <<>>
    /\ messages_fts = {}
    /\ edits = <<>>
    /\ reactions = {}
    /\ tables = StoreTables \cup EventTables
    /\ sessions = {}
    /\ archive_state = [k \in {} |-> Null]
    /\ files = [f \in {} |-> <<>>]
    /\ clock = 1
    /\ scan = noScan
    /\ call = [op |-> "open"]
    /\ forceUsed = FALSE

\* archive.insertMessage(m)
ReadInsert ==
    /\ Len(messages) < MaxInserts
    /\ \E m \in LifeMessages :
          LET out == insertMessage(messages, m, TRUE)
          IN  /\ messages' = out.messages
              /\ messages_fts' = messages_fts_insert(messages_fts, messages, out.messages)
    /\ call' = [op |-> "insertMessage"]
    /\ UNCHANGED <<edits, reactions, clock, lifeFrame>>

\* archive.softDeleteMessage(id) of a stored message
ReadSoftDelete ==
    /\ \E id \in LifeIds :
          /\ rowOf(messages, id) # 0
          /\ setMsgStore(softDeleteMessage(MsgStore, id, clock))
    /\ call' = [op |-> "softDeleteMessage"]
    /\ UNCHANGED <<reactions, clock, lifeFrame>>

\* archive.queryMessages(filters)
QueryMessagesCall ==
    /\ \E f \in ReadFilters :
          \E result \in queryMessages(messages, messages_fts, f) :
             call' = [op |-> "queryMessages", filters |-> f, result |-> result]
    /\ UNCHANGED <<messages, messages_fts, clock, edits, reactions, lifeFrame>>

\* archive.getConversationContext(startTime, endTime, sessionKey)
ConversationContextCall ==
    /\ \E startTime \in {1, 2}, endTime \in {2, 3} :
          \E result \in getConversationContext(messages, messages_fts, startTime, endTime) :
             call' = [op |-> "getConversationContext", startTime |-> startTime,
                      endTime |-> endTime, result |-> result]
    /\ UNCHANGED <<messages, messages_fts, clock, edits, reactions, lifeFrame>>

\* archive.search(query, limit)
SearchCall ==
    /\ \E query \in {"hello", "hi"}, limit \in {1, SEARCH_LIMIT} :
          \E result \in search(messages, messages_fts, query, limit) :
             call' = [op |-> "search", query |-> query, limit |-> limit,
                      result |-> result]
    /\ UNCHANGED <<messages, messages_fts, clock, edits, reactions, lifeFrame>>

NextRead ==
    \/ ReadInsert
    \/ ReadSoftDelete
    \/ QueryMessagesCall
    \/ ConversationContextCall
    \/ SearchCall

SpecRead == InitRead /\ [][NextRead]_vars

\* ------------------------------------- SpecFts: edits and the text index

\* messages are inserted, edited and searched for
NextFts ==
    \/ InsertOne
    \/ UpdateMessageCall
    \/ SearchCall

SpecFts == InitLife /\ [][NextFts]_vars


\* ------------------------------------------------- claims C17 to C20

\* the rows of a result
rowsOf(result) == {result[k] : k \in 1..Len(result)}

\* the message with rowid i matches the filters of f other than include_deleted
otherFilters(f, i) ==
    /\ f.senderId # Null => messages[i].sender_id = f.senderId
    /\ f.startTime # 0 => messages[i].timestamp >= f.startTime
    /\ f.endTime # 0 => messages[i].timestamp <= f.endTime
    /\ f.contentMatch # Null => messages[i].content_text = f.contentMatch

\* C17: query_messages with include_deleted = false returns no message whose
\* deleted_at is set; with include_deleted = true it returns the soft-deleted
\* messages that match the other filters (all of them when the matching
\* messages fit in the limit, and never fewer rows than the limit otherwise)
C17_SoftDeleteVisibility ==
    call.op = "queryMessages" =>
        LET f == call.filters
            matching == {i \in 1..Len(messages) : otherFilters(f, i)}
        IN  /\ ~f.includeDeleted => \A m \in rowsOf(call.result) : m.deleted_at = Unset
            /\ f.includeDeleted =>
                 /\ rowsOf(call.result) \subseteq {messages[i] : i \in matching}
                 /\ Cardinality(matching) <= f.limit =>
                        rowsOf(call.result) = {messages[i] : i \in matching}
                 /\ Cardinality(matching) > f.limit => Len(call.result) = f.limit

\* C17: a default query returned a live message and left out a soft-deleted
\* one that matches its other filters
C17_Witness ==
    /\ call.op = "queryMessages"
    /\ ~call.filters.includeDeleted
    /\ call.result # <<>>
    /\ \E i \in 1..Len(messages) :
          /\ messages[i].deleted_at # Unset
          /\ otherFilters(call.filters, i)
          /\ messages[i] \notin rowsOf(call.result)

\* C18: neither search nor conversation_context returns a message whose
\* deleted_at is set
C18_DefaultReadsHideDeleted ==
    call.op \in {"search", "getConversationContext"} =>
        \A m \in rowsOf(call.result) : m.deleted_at = Unset

\* C18, the part that holds: conversation_context renders no message whose
\* deleted_at is set
C18_ContextHidesDeleted ==
    call.op = "getConversationContext" =>
        \A m \in rowsOf(call.result) : m.deleted_at = Unset

\* C19: no step removes a Message row, and soft_delete_message(M, t) sets
\* deleted_at = t on M's row and changes no other column, no other row, no
\* Edit and no reaction
C19_RowsNeverRemoved ==
    [][/\ Len(messages') >= Len(messages)
       /\ \A i \in 1..Len(messages) : messages'[i].message_id = messages[i].message_id
       /\ call'.op = "softDeleteMessage" =>
            /\ messages' = [i \in 1..Len(messages) |->
                              IF messages[i].message_id = call'.id
                              THEN [messages[i] EXCEPT !.deleted_at = <<call'.t>>]
                              ELSE messages[i]]
            /\ edits' = edits
            /\ reactions' = reactions]_vars

\* C19: one of two stored messages was soft-deleted after an edit
C19_Witness ==
    /\ call.op = "softDeleteMessage"
    /\ Len(messages) = 2
    /\ edits # <<>>
    /\ \E i \in 1..Len(messages) :
          messages[i].message_id = call.id /\ messages[i].deleted_at = <<call.t>>

\* the state an update_message call must leave, given the message's row i
\* before the call (0: not stored)
updated(i) ==
    IF i = 0
    THEN messages = call.pre /\ edits = call.preEdits /\ call.ret = "ok"
    ELSE /\ edits = Append(call.preEdits,
                           [message_id |-> call.id,
                            previous_content |-> call.pre[i].content_text,
                            edited_at |-> call.t])
         /\ messages = [call.pre EXCEPT ![i].content_text = call.new,
                                        ![i].edited_at = <<call.t>>]
         /\ call.ret = "ok"

\* C20: update_message(M, new, t) on a stored M, whatever its content, appends
\* one Edit row (M, previous content, t) and sets content_text and edited_at;
\* on an M that is not stored it changes nothing and raises no error
C20_UpdateAppendsOneEdit ==
    call.op = "updateMessage" => updated(rowOf(call.pre, call.id))

\* C20, the part that holds: the same for a stored M that has a text, and for
\* an M that is not stored
C20_UpdateOfTextAppendsOneEdit ==
    (call.op = "updateMessage"
        /\ (rowOf(call.pre, call.id) # 0 =>
                call.pre[rowOf(call.pre, call.id)].content_text # Null))
    => updated(rowOf(call.pre, call.id))


\* ------------------------------------------------- claims C21 to C30

\* the Edit rows of the message with this id, oldest first
editsOf(messageId) == SelectSeq(edits, LAMBDA e : e.message_id = messageId)

\* C21: in every reachable state, a crash between the steps of update_message
\* included, a Message has an Edit row exactly when it carries an edit
\* (edited_at set), and its edited_at is that of its latest Edit row
C21_UpdateAtomic ==
    \A i \in 1..Len(messages) :
        LET es == editsOf(messages[i].message_id)
        IN  IF es = <<>> THEN messages[i].edited_at = Unset
            ELSE messages[i].edited_at = <<es[Len(es)].edited_at>>

\* C21, the part that holds: the same as long as no update_message call was
\* cut short
C21_UpdateAtomicUnlessKilled ==
    [][call'.op # "killed" =>
         (C21_UpdateAtomic => C21_UpdateAtomic')]_vars


\* C22: every Message row's stored fingerprint is H(sender_id | timestamp |
\* content_text) of the row's current columns
C22_FingerprintInvariant ==
    \A i \in 1..Len(messages) : messages[i].content_hash = hashMessage(messages[i])

\* C22, the part that holds: the same for the rows that were never edited
C22_FingerprintOfUneditedRows ==
    \A i \in 1..Len(messages) :
        messages[i].edited_at = Unset =>
            messages[i].content_hash = hashMessage(messages[i])


\* the rows of rs with this key
keyed(rs, key) == {r \in rs : reactionKey(r) = key}

\* C23: there is at most one reaction row per (message, emoji, user);
\* remove_reaction sets removed_at on the row when it is active and otherwise
\* changes nothing; add_reaction on a row that exists (removed or not) leaves
\* that same row active, removed_at cleared and added_at refreshed
C23_ReactionLifecycle ==
    /\ \A r1, r2 \in reactions : reactionKey(r1) = reactionKey(r2) => r1 = r2
    /\ call.op = "removeReaction" =>
          reactions = {IF reactionKey(r) = call.key /\ r.removed_at = Unset
                       THEN [r EXCEPT !.removed_at = <<call.t>>] ELSE r : r \in call.before}
    /\ (call.op = "addReaction" /\ keyed(call.before, call.key) # {}) =>
          reactions = {IF reactionKey(r) = call.key
                       THEN [r EXCEPT !.removed_at = Unset, !.added_at = call.t]
                       ELSE r : r \in call.before}

\* C23: a reaction removed at an earlier time was added again, and another
\* removed reaction was left as it was
C23_Witness ==
    /\ call.op = "addReaction"
    /\ \E r \in keyed(call.before, call.key) :
          /\ r.removed_at # Unset
          /\ r.added_at < call.t
          /\ [r EXCEPT !.removed_at = Unset, !.added_at = call.t] \in reactions
    /\ \E r \in reactions : r.removed_at # Unset


\* the root holds one file with the single session record whose id is the
\* file's name
oneSessionFile ==
    /\ Len(files["f1"]) = 1
    /\ files["f1"][1].type = "session"
    /\ files["f2"] = <<>>

\* the first events scan left the one Event row of the session record, no
\* error and a watermark
firstScanDone ==
    /\ {[event_id |-> r.event_id, session_id |-> r.session_id,
         event_type |-> r.event_type] : r \in events}
         = {[event_id |-> "f1", session_id |-> "f1", event_type |-> "session"]}
    /\ call.errors = 0
    /\ lastScan(archive_state, EVENTS_CHECKPOINT_KEY) > 0

\* C24: once the Store is open the database has the Event, ThinkingBlock and
\* UsageStats tables, and the first events scan of a root with one file holding
\* a single session record ends with that one Event row, errors = 0 and a
\* watermark > 0
C24_OpenCreatesEventTables ==
    /\ call.op \in {"open", "scanned"} =>
          {"events", "thinking_blocks", "usage_stats"} \subseteq tables
    /\ (call.op = "scanned" /\ oneSessionFile) => firstScanDone

\* C24, the part that holds: the same scan on a database that
\* archive-events-init has prepared
C24_FirstScanAfterEventsInit ==
    (call.op = "scanned" /\ oneSessionFile /\ "events" \in tables) => firstScanDone


\* C24: the first scan of the one session record on a database the Store
\* alone created: no Event row and one error
C24_NoTableNoRow ==
    /\ call.op = "scanned"
    /\ oneSessionFile
    /\ "events" \notin tables
    /\ events = {}
    /\ call.errors = 1
    /\ lastScan(archive_state, EVENTS_CHECKPOINT_KEY) > 0


\* the event ids of the Event rows of one type
eventIdsOf(type) == {r.event_id : r \in {x \in events : x.event_type = type}}

\* C25: each Event row of type thinking_block has its ThinkingBlock row, each
\* Event row of type usage_stats its UsageStats row, and no satellite row is
\* without its Event row (a satellite table holds one row per event id)
C25_SatellitesOneToOne ==
    /\ thinking_blocks = eventIdsOf("thinking_block")
    /\ usage_stats = eventIdsOf("usage_stats")

\* C25, the part that holds: usage_stats events and UsageStats rows are one to
\* one, and every ThinkingBlock row has its thinking_block Event row
C25_SatellitesHaveEvents ==
    /\ thinking_blocks \subseteq eventIdsOf("thinking_block")
    /\ usage_stats = eventIdsOf("usage_stats")


\* record i of the batch replies to a message that is neither stored before
\* the batch nor a record of the batch up to i
dangling(i) ==
    /\ replyTo(call.msgs[i]) # Null
    /\ rowOf(call.pre, replyTo(call.msgs[i])) = 0
    /\ \A j \in 1..i : call.msgs[j].message_id # replyTo(call.msgs[i])

\* C26: insert_messages_batch lets no exception reach the caller, drops the
\* records whose reply_to_id names a message that is not in the Store, and
\* every other record is stored when the call returns (inserted by it, or
\* skipped because it was there)
C26_BatchDropsBadRecord ==
    call.op = "insertBatch" =>
        /\ call.ret = "ok"
        /\ \A i \in 1..Len(call.msgs) :
              IF dangling(i) THEN rowOf(messages, call.msgs[i].message_id)
                                    = rowOf(call.pre, call.msgs[i].message_id)
              ELSE replyTo(call.msgs[i]) = Null =>
                      rowOf(messages, call.msgs[i].message_id) # 0

\* C26, the part that holds: a batch raises only when one of its records
\* replies to a missing message, and then it stores nothing at all; a batch
\* with no such record raises nothing and leaves all its records stored
C26_BatchAllOrNothing ==
    call.op = "insertBatch" =>
        /\ call.ret = "throw" =>
              messages = call.pre /\ \E i \in 1..Len(call.msgs) : dangling(i)
        /\ (~\E i \in 1..Len(call.msgs) : dangling(i)) =>
              /\ call.ret = "ok"
              /\ \A i \in 1..Len(call.msgs) : rowOf(messages, call.msgs[i].message_id) # 0
              /\ call.inserted + call.skipped = Len(call.msgs)

\* a batch of two records, the second replying to a missing message, raised
\* and its first record is not stored
C26_BatchRolledBack ==
    /\ call.op = "insertBatch"
    /\ call.ret = "throw"
    /\ Len(call.msgs) = 2
    /\ ~dangling(1)
    /\ dangling(2)
    /\ rowOf(messages, call.msgs[1].message_id) = 0


\* C27: the first import of a Telegram export of N messages into the empty
\* Store returns inserted = N, skipped = 0 and the second import of the same
\* export returns inserted = 0, skipped = N
C27_TelegramImportTwice ==
    /\ (call.op = "backfillTelegram" /\ call.n = 1) =>
          call.ret = "ok" /\ call.inserted = call.found /\ call.skipped = 0
    /\ (call.op = "backfillTelegram" /\ call.n = 2) =>
          call.ret = "ok" /\ call.inserted = 0 /\ call.skipped = call.found

\* no two messages of the export have the same sender, second and text, and
\* every reply is to a message of the export
distinctAndClosed(e) ==
    /\ \A i, j \in 1..Len(e) :
          i # j => <<e[i].from_id, e[i].date, e[i].text>> # <<e[j].from_id, e[j].date, e[j].text>>
    /\ \A i \in 1..Len(e) :
          e[i].reply_to_message_id # 0 =>
              \E j \in 1..i : e[j].id = e[i].reply_to_message_id

\* C27, the part that holds: the counts are N, 0 and then 0, N for an export
\* whose messages differ in sender, second or text and reply only to messages
\* at or before them in the export
C27_ImportTwiceOfDistinct ==
    distinctAndClosed(files["result.json"]) => C27_TelegramImportTwice

\* the first import of an export of two messages skipped one of them
C27_FirstImportSkips ==
    /\ call.op = "backfillTelegram"
    /\ call.n = 1
    /\ call.ret = "ok"
    /\ call.found = 2
    /\ call.skipped = 1


\* the Session row of the file the scan last took
rowOfFile == {r \in sessions : r.id = call.id}

\* C28: for every file whose session metadata is detected the sessions scan
\* leaves a Session row with a title and a summary, the fallback's when the
\* summarizer threw, and the scan goes on to the next file
C28_SummarizerNeverAborts ==
    (call.op = "sessionFile" /\ call.detected) =>
        /\ \E r \in rowOfFile : r.title # Null /\ r.summary # Null
        /\ call.outcome = "throw" =>
              \E r \in rowOfFile : [title |-> r.title, summary |-> r.summary] = call.fallback
        /\ scan.pc = "files"

\* C28, the part that holds: the same, of a file whose session names no
\* parent session the Store lacks and starts at a time that is a date; and an
\* exception of the summarizer is never the error of a file
C28_SummarizerFallback ==
    (call.op = "sessionFile" /\ call.detected) =>
        /\ (call.parent_id = Null /\ call.started_at # NaN) =>
              /\ call.result # "error"
              /\ \E r \in rowOfFile : r.title # Null /\ r.summary # Null
        /\ (call.outcome = "throw" /\ call.result # "error") =>
              \E r \in rowOfFile : [title |-> r.title, summary |-> r.summary] = call.fallback
        /\ scan.pc = "files"

\* the summarizer threw and the file's row carries the fallback
C28_FallbackStored ==
    /\ call.op = "sessionFile"
    /\ call.outcome = "throw"
    /\ call.result = "inserted"
    /\ \E r \in rowOfFile : [title |-> r.title, summary |-> r.summary] = call.fallback

\* a file's metadata was detected, the upsert was refused, no row
C28_DetectedNoRow ==
    /\ call.op = "sessionFile"
    /\ call.detected
    /\ call.result = "error"
    /\ rowOfFile = {}


\* the directories the scan root holds session logs in
logDirectory(p) ==
    \/ Len(p.dirs) = 3 /\ p.dirs[1] = "agents" /\ p.dirs[3] = "sessions"
    \/ /\ Len(p.dirs) = 4
       /\ p.dirs[1] = "agents" /\ p.dirs[3] = "subagent" /\ p.dirs[4] = "sessions"
    \/ p.dirs = <<"cron", "runs">>

\* the file name has the part in it
nameContains(p, part) == \E i \in 1..Len(p.name) : p.name[i] = part

\* C29: the files a scan processes are the *.jsonl files of
\* agents/<agent>/sessions, agents/<agent>/subagent/sessions and cron/runs
\* that are no .lock file and have no .deleted. in their name
C29_ScanFileSet ==
    call.op = "findSessionFiles" =>
        call.sessionFiles =
            {p \in DOMAIN files :
                /\ logDirectory(p)
                /\ endsWithJsonl(p.name)
                /\ ~nameContains(p, ".lock")
                /\ ~nameContains(p, ".deleted.")}

\* C29, the part that holds: the scan takes no .lock file and no file of
\* cron/runs, and takes every file of agents/<agent>/sessions and of
\* agents/<agent>/subagent/sessions whose name ends in .jsonl
C29_SessionsDirectoriesOnly ==
    call.op = "findSessionFiles" =>
        \A p \in DOMAIN files :
            /\ nameContains(p, ".lock") => p \notin call.sessionFiles
            /\ p.dirs = <<"cron", "runs">> => p \notin call.sessionFiles
            /\ (logDirectory(p) /\ p.dirs # <<"cron", "runs">> /\ endsWithJsonl(p.name))
                  => p \in call.sessionFiles

\* the state directory has a log of a cron run and the scan left it out
C29_CronRunLeftOut ==
    /\ call.op = "findSessionFiles"
    /\ \E p \in DOMAIN files :
          p.dirs = <<"cron", "runs">> /\ endsWithJsonl(p.name) /\ p \notin call.sessionFiles


\* the message ids of the rows a search returned
foundIds == {call.result[k].message_id : k \in 1..Len(call.result)}

\* the stored rows whose text is now the query
rowsWithText(query) ==
    {messages[i].message_id : i \in {j \in 1..Len(messages) : messages[j].content_text = query}}

\* C30: a search returns every message whose text has the token, inserted
\* with it or updated to it, and no message whose text had the token only
\* before an update
C30_FtsLockstep ==
    (call.op = "search" /\ call.limit = SEARCH_LIMIT) => foundIds = rowsWithText(call.query)

\* C30, the part that holds: a search returns every message whose text has
\* the token, and each message it returns has the token in its text or had
\* it in a text that an update replaced
C30_FtsFindsNewText ==
    (call.op = "search" /\ call.limit = SEARCH_LIMIT) =>
        /\ rowsWithText(call.query) \subseteq foundIds
        /\ \A id \in foundIds \ rowsWithText(call.query) :
              \E k \in 1..Len(edits) :
                 edits[k].message_id = id /\ edits[k].previous_content = call.query

\* a search for the text an update replaced returned the updated message
C30_OldTextStillFound ==
    /\ call.op = "search"
    /\ call.limit = SEARCH_LIMIT
    /\ \E k \in 1..Len(edits) :
          /\ edits[k].previous_content = call.query
          /\ edits[k].message_id \in foundIds
          /\ edits[k].message_id \notin rowsWithText(call.query)


\* C31: a batch of events that insertEventBatch inserted in full, given to
\* insertEventBatch again, is reported inserted 0, skipped |B|, errors 0 and
\* no row of events, thinking_blocks or usage_stats changes
C31_BatchAgainSkipsAll ==
    (call.op = "again" /\ call.first.inserted = Len(call.first.evts)) =>
        /\ call.inserted = 0
        /\ call.skipped = Len(call.first.evts)
        /\ call.errors = 0
        /\ events = call.pre.events
        /\ thinking_blocks = call.pre.thinking_blocks
        /\ usage_stats = call.pre.usage_stats

\* a batch of two events, child after parent, was inserted in full and given
\* again
C31_Witness ==
    /\ call.op = "again"
    /\ Len(call.first.evts) = 2
    /\ call.first.inserted = 2
    /\ call.first.evts[2].parent_event_id = call.first.evts[1].event_id
    /\ call.skipped = 2


\* the export of the two lines "12/31/23, 10:30 PM - Alice: Hi" and
\* "[31/12/23, 22:31:00] Bob: Hi"
twoFormats ==
    /\ Len(files["chat.txt"]) = 2
    /\ files["chat.txt"][1] =
          [kind |-> "dash", date |-> <<12, 31>>, hour |-> 10, minute |-> 30,
           seconds |-> FALSE, meridiem |-> "PM", sender |-> "Alice", text |-> "Hi"]
    /\ files["chat.txt"][2] =
          [kind |-> "bracket", date |-> <<31, 12>>, hour |-> 22, minute |-> 31,
           seconds |-> TRUE, meridiem |-> "", sender |-> "Bob", text |-> "Hi"]

\* C32: the export of a US-style line of Alice and a bracketed 24-hour line of
\* Bob is imported as two messages, of Alice and of Bob, on channel whatsapp,
\* with timestamps that are numbers and increase
C32_WhatsAppTwoFormats ==
    (call.op = "backfillWhatsApp" /\ call.n = 1 /\ twoFormats) =>
        /\ call.ret = "ok"
        /\ call.inserted = 2
        /\ Len(messages) = 2
        /\ call.parsed[1].sender_name = "Alice"
        /\ call.parsed[2].sender_name = "Bob"
        /\ \A i \in 1..2 : call.parsed[i].channel = "whatsapp"
        /\ call.parsed[1].timestamp # NaN
        /\ call.parsed[2].timestamp # NaN
        /\ call.parsed[1].timestamp < call.parsed[2].timestamp

\* C32, the part that holds: both lines are parsed, as messages of Alice and
\* of Bob on channel whatsapp; and an export whose dates all read month first
\* is imported with numbers as timestamps
C32_WhatsAppSendersAndDates ==
    (call.op = "backfillWhatsApp" /\ call.n = 1) =>
        /\ twoFormats =>
              /\ Len(call.parsed) = 2
              /\ call.parsed[1].sender_name = "Alice"
              /\ call.parsed[2].sender_name = "Bob"
              /\ \A i \in 1..2 : call.parsed[i].channel = "whatsapp"
        /\ (\A i \in 1..Len(files["chat.txt"]) : files["chat.txt"][i].date[1] <= 12) =>
              /\ call.ret = "ok"
              /\ \A i \in 1..Len(messages) : messages[i].timestamp # NaN

\* the two-format export was imported and the Store is empty
C32_NothingImported ==
    /\ call.op = "backfillWhatsApp"
    /\ twoFormats
    /\ call.ret = "throw"
    /\ messages = <<>>


\* C33: after the events scan of file f1 every Event row has session_id f1,
\* the row of the session header included, so the rows of session f1 are all
\* the rows and the rows make one session
C33_SessionIdIsBasename ==
    call.op \in {"stored", "exported"} =>
        /\ \A r \in events : r.session_id = "f1"
        /\ sessionRows(Db, "f1") = events
        /\ Cardinality({<<r.session_id, r.session_key>> : r \in events}) <= 1

\* C33, the part that holds: every row but that of a session header has
\* session_id f1, and a header's row has the id the header gives
C33_SessionIdOfRecords ==
    call.op \in {"stored", "exported"} =>
        \A r \in events :
            IF r.event_type = "session" THEN r.session_id = r.event_id
            ELSE r.session_id = "f1"

\* f1 is scanned, its header names session s0, and the header's row is none
\* of the exported session f1
C33_HeaderOutsideSession ==
    /\ call.op = "exported"
    /\ \E r \in events : r.event_type = "session" /\ r.session_id = "s0"
    /\ \E r \in events : r.session_id = "f1"


\* C34: a sessions scan without force leaves every Session row as it is and
\* counts the file of a session that has a row as skipped; only a scan with
\* force rewrites a row
C34_NonForceKeepsSessionRows ==
    [][/\ (\E r \in sessions : r \notin sessions') => scan.force
       /\ (/\ call'.op = "sessionFile"
           /\ call'.detected
           /\ ~scan.force
           /\ \E r \in sessions : r.id = call'.id) => call'.result = "skipped"]_vars

\* a scan without force skipped a file whose row carries the summarizer's
\* title of an earlier scan
C34_Witness ==
    /\ call.op = "sessionFile"
    /\ call.result = "skipped"
    /\ ~scan.force
    /\ \E r \in rowOfFile : r.title = "Title"


\* the status of session id, "none" when it has no row
statusOf(rows, id) ==
    IF \E r \in rows : r.id = id THEN (CHOOSE r \in rows : r.id = id).status ELSE "none"

\* C35: completeSession and failSession turn an active session into a
\* completed or a failed one and change nothing else: a session that is
\* completed or failed, or that has no row, is left as it is, and so is every
\* other session
C35_StatusOnlyFromActive ==
    [][call'.op \in {"completeSession", "failSession"} =>
          /\ \A r \in sessions :
                \/ r \in sessions'
                \/ /\ r.id = call'.id
                   /\ r.status = "active"
                   /\ [r EXCEPT !.status = IF call'.op = "completeSession" THEN "completed"
                                           ELSE "failed"] \in sessions'
          /\ Cardinality(sessions') = Cardinality(sessions)
          /\ statusOf(sessions, call'.id) # "active" => sessions' = sessions]_vars

\* failSession was called on a completed session, which is still completed
C35_Witness ==
    /\ call.op = "failSession"
    /\ statusOf(sessions, call.id) = "completed"


\* the record id is in a session file
written(id) == \E f \in DOMAIN files : \E i \in 1..Len(files[f]) : files[f][i].id = id

\* the record id has its Event row
stored(id) == \E e \in events : e.event_id = id

\* the record id is without its row and no scan that is not forced reads it
\* any more: it is dated at or before the stored watermark and at or before
\* the cutoff of the scan that is running
lost(id) ==
    /\ ~stored(id)
    /\ \E f \in DOMAIN files : \E i \in 1..Len(files[f]) :
          /\ files[f][i].id = id
          /\ files[f][i].timestamp <= lastScan(archive_state, EVENTS_CHECKPOINT_KEY)
          /\ scan.pc # "idle" => \/ files[f][i].timestamp <= scan.lastTimestamp
                                 \/ scan.eidx > (IF f = "f1" THEN 1 ELSE 2)

\* C36: a record appended to a session file at any moment, stamped with the
\* clock of that moment, gets its Event row from some later periodic scan
C36_NoRecordMissed ==
    \A i \in 1..Len(AppendIds) : written(AppendIds[i]) ~> stored(AppendIds[i])

\* a record that is lost stays lost, whatever scans follow
C36_LostForGood ==
    [][\A i \in 1..Len(AppendIds) : lost(AppendIds[i]) => lost(AppendIds[i])']_vars

\* a record was appended to a file the running scan had read already, the
\* scan stored its watermark, and the record is lost
C36_AppendedBehindWatermark ==
    /\ scan.pc = "idle"
    /\ \E i \in 1..Len(AppendIds) : lost(AppendIds[i])


\* every record of file f has its Event row
fileStored(f) == \A i \in 1..Len(files[f]) : stored(files[f][i].id)

\* C37: a file whose processing failed in a scan that was not forced has the
\* events it held then inserted by a later such scan, in which the file can
\* be processed
C37_FailedFileRecovered ==
    \A f \in {"f1", "f2"} : (f \in scan.failed) ~> fileStored(f)

\* a file that failed in a scan after which the watermark was stored, and
\* whose records are dated at or before it, stays without its rows
C37_FailedFileStaysOut ==
    [][\A f \in {"f1", "f2"} :
          (/\ scan.pc = "idle" /\ f \in scan.failed /\ ~fileStored(f)
           /\ \A i \in 1..Len(files[f]) :
                 files[f][i].timestamp <= lastScan(archive_state, EVENTS_CHECKPOINT_KEY))
          => ~fileStored(f)']_vars

\* the scan in which f1 failed has stored its watermark, and the record of
\* f1 is dated before it and has no row
C37_WatermarkPastFailedFile ==
    /\ scan.pc = "idle"
    /\ "f1" \in scan.failed
    /\ ~fileStored("f1")
    /\ files.f1[1].timestamp <= lastScan(archive_state, EVENTS_CHECKPOINT_KEY)


\* the three scans of the file have run
allScanned == call.messages # Null /\ call.events # Null /\ call.sessions # Null

\* C38: the session_key on a file's Message rows, on its Event rows and on its
\* Session row is one value
C38_OneSessionKey ==
    (call.op = "keys" /\ allScanned) =>
        (call.messages = call.events /\ call.events = call.sessions)

\* the session_key of the Event rows is agent:main:main whatever the file, and
\* that of the Message rows is made of the directories of the path and never
\* has the shape agent:main:...
C38_KeysOfTheScans ==
    (call.op = "keys" /\ allScanned) =>
        /\ call.events = "agent:main:main"
        /\ call.messages \in {"agents:main", "agents:work", "unknown:session"}
        /\ call.sessions \in {"agent:main:main", "agent:main:subagent:s1",
                              "agent:main:subagent:s2", "cron", "unknown"}

\* a main session file with no parent: its messages are under agents:main, its
\* events and its Session row under agent:main:main
C38_MainSessionTwoKeys ==
    /\ call.op = "keys"
    /\ allScanned
    /\ call.messages = "agents:main"
    /\ call.events = "agent:main:main"
    /\ call.sessions = "agent:main:main"


\* the messages of the imported files: the file and the place in it
sources == {<<f, i>> : f \in DOMAIN call.skipped, i \in 1..2} \cap
           {x \in ImportFiles \X (1..2) : x[2] <= Len(parseImport(x[1]))}

\* C39: two different source messages, of two conversations or of one export,
\* are given different message_ids, and the import of one does not skip the
\* other
C39_DistinctMessageIds ==
    call.op = "imports" =>
        /\ \A x, y \in sources :
              x # y => parseImport(x[1])[x[2]].message_id # parseImport(y[1])[y[2]].message_id
        /\ \A f \in DOMAIN call.skipped : call.skipped[f] = 0

\* a message of the WhatsApp chat and a message of a Telegram conversation
\* never have the same message_id
C39_IdsApartAcrossParsers ==
    call.op = "imports" =>
        \A x, y \in sources :
            (x[1] = "chat.txt" /\ y[1] # "chat.txt") =>
                parseImport(x[1])[x[2]].message_id # parseImport(y[1])[y[2]].message_id

\* the message of the second Telegram conversation, which has another sender
\* and another text than that of the first, was skipped as a duplicate
C39_OtherChatSkipped ==
    /\ call.op = "imports"
    /\ "chat1/result.json" \in DOMAIN call.skipped
    /\ "chat2/result.json" \in DOMAIN call.skipped
    /\ call.skipped["chat2/result.json"] = 1
    /\ files["chat1/result.json"][1].text # files["chat2/result.json"][1].text

\* the second line of the WhatsApp chat, of the same sender in the same
\* minute with another text, was skipped as a duplicate
C39_SameMinuteSkipped ==
    /\ call.op = "imports"
    /\ "chat.txt" \in DOMAIN call.skipped
    /\ call.skipped["chat.txt"] = 1
    /\ files["chat.txt"][2].sender = "Alice"
    /\ files["chat.txt"][2].minute = 30


\* the step is a messages scan
isRescan == call.op = "remsg" /\ call'.op = "remsg" /\ call'.runs = call.runs + 1

\* C40: a messages scan, forced or not, of the files a soft-deleted message
\* came from leaves the row as it is, deleted_at included, and adds no row
\* for the record the row was made from
C40_DeletedNotResurrected ==
    [][isRescan =>
          \A i \in 1..Len(messages) :
              messages[i].deleted_at # Unset =>
                  /\ Len(messages') >= Len(messages)
                  /\ messages'[i] = messages[i]
                  /\ \A j \in (Len(messages) + 1)..Len(messages') :
                        messages'[j].content_text # messages[i].content_text]_vars

\* a messages scan leaves every soft-deleted row as it is, and adds no row
\* for a deleted message whose record carries its own timestamp
C40_DeletedRowKept ==
    [][isRescan =>
          \A i \in 1..Len(messages) :
              messages[i].deleted_at # Unset =>
                  /\ Len(messages') >= Len(messages)
                  /\ messages'[i] = messages[i]
                  /\ (\A f \in DOMAIN files : \A k \in 1..Len(files[f]) : files[f][k].mts # 0)
                     => \A j \in (Len(messages) + 1)..Len(messages') :
                           messages'[j].content_text # messages[i].content_text]_vars

\* after the second scan the deleted message has a second row, which is not
\* deleted
C40_SecondRowOfDeleted ==
    /\ call.op = "remsg"
    /\ call.runs = 2
    /\ \E i, j \in 1..Len(messages) :
          /\ i < j
          /\ messages[i].deleted_at # Unset
          /\ messages[j].deleted_at = Unset
          /\ messages[j].content_text = messages[i].content_text

====
